---- MODULE Spec2Model ----
\* Verification model of the collaborative editing core of
\* nurdwerks/fictional-happiness: the text-operation algebra, the server's
\* document authority and session registry (CollaborationServer) and the
\* client's reconciliation engine (CollaborationClient).
\*
\* Texts are sequences of one-character strings.  A TextOperation is a
\* sequence of components [t, n, s]: retain n characters (t = "r"), insert
\* the text s (t = "i"), delete the text s (t = "d").
EXTENDS Integers, Sequences, FiniteSets, TLC

\* -------------------------------------------------------------------------
\* Bounds of the algebra specification
\* -------------------------------------------------------------------------
MaxLen == 2
MaxComps == 3

\* The base texts of the algebra specification are the prefixes of this text.
AlgAlphabet == <<"a", "b", "c", "d">>
AlgInsTexts == {<<"X">>, <<"Y">>}

\* -------------------------------------------------------------------------
\* Operation algebra (ot-text: apply, transform, compose)
\* -------------------------------------------------------------------------
Ret(n) == [t |-> "r", n |-> n, s |-> <<>>]
Ins(str) == [t |-> "i", n |-> 0, s |-> str]
Del(str) == [t |-> "d", n |-> 0, s |-> str]

\* The result of an apply that fails (LengthMismatch): no text contains it.
Fail == <<"LengthMismatch">>

Min(a, b) == IF a <= b THEN a ELSE b

Take(str, k) == SubSeq(str, 1, k)
Drop(str, k) == SubSeq(str, k + 1, Len(str))

\* Characters of the base text a component consumes.
CompLen(c) == IF c.t = "r" THEN c.n ELSE IF c.t = "d" THEN Len(c.s) ELSE 0

\* What is left of component c once its first k consumed characters are gone.
RestOf(c, k) == IF c.t = "r" THEN Ret(c.n - k) ELSE [c EXCEPT !.s = Drop(c.s, k)]

\* op with the first k characters of its head component taken away.
Advance(op, k) ==
  IF CompLen(Head(op)) = k THEN Tail(op) ELSE <<RestOf(Head(op), k)>> \o Tail(op)

RECURSIVE ApplyRec(_, _)
ApplyRec(base, op) ==
  IF op = <<>> THEN (IF base = <<>> THEN <<>> ELSE Fail)
  ELSE LET c == Head(op) IN
    IF c.t = "i" THEN
      LET rest == ApplyRec(base, Tail(op)) IN
      IF rest = Fail THEN Fail ELSE c.s \o rest
    ELSE IF c.t = "r" THEN
      IF c.n > Len(base) THEN Fail
      ELSE LET rest == ApplyRec(Drop(base, c.n), Tail(op)) IN
           IF rest = Fail THEN Fail ELSE Take(base, c.n) \o rest
    ELSE
      IF Len(c.s) > Len(base) \/ Take(base, Len(c.s)) # c.s THEN Fail
      ELSE ApplyRec(Drop(base, Len(c.s)), Tail(op))

\* apply(base, op): replays op left to right; fails when a delete's text does
\* not match the base at the cursor or the consumed length is not |base|.
Apply(base, op) == IF base = Fail THEN Fail ELSE ApplyRec(base, op)

RECURSIVE TransformRec(_, _, _)
TransformRec(op, other, side) ==
  IF other = <<>> THEN op
  ELSE LET b == Head(other) IN
    IF op # <<>> /\ Head(op).t = "i" /\ (b.t # "i" \/ side = "left") THEN
      \* op's insert goes first: always before a retain or delete of other,
      \* and before other's insert at the same position when op is left
      <<Head(op)>> \o TransformRec(Tail(op), other, side)
    ELSE IF b.t = "i" THEN
      <<Ret(Len(b.s))>> \o TransformRec(op, Tail(other), side)
    ELSE IF op = <<>> THEN
      \* op is exhausted: the rest of the base is retained implicitly
      (IF b.t = "r" THEN <<b>> ELSE <<>>) \o TransformRec(op, Tail(other), side)
    ELSE LET a == Head(op)
             k == Min(CompLen(a), CompLen(b))
             rest == TransformRec(Advance(op, k), Advance(other, k), side)
         IN IF b.t = "d" THEN rest
            ELSE IF a.t = "r" THEN <<Ret(k)>> \o rest
            ELSE <<Del(Take(a.s, k))>> \o rest

\* transform without the tie-break: op's insert first on either side.
TransformIgnoringSide(op, other, side) == TransformRec(op, other, "left")

\* transform(op, other, side): op rewritten to apply after other, both being
\* defined against the same base.
Transform(op, other, side) == TransformRec(op, other, side)

RECURSIVE ComposeRec(_, _)
ComposeRec(opA, opB) ==
  IF opB = <<>> THEN opA
  ELSE LET b == Head(opB) IN
    IF b.t = "i" THEN <<b>> \o ComposeRec(opA, Tail(opB))
    ELSE IF opA = <<>> THEN <<b>> \o ComposeRec(opA, Tail(opB))
    ELSE LET a == Head(opA) IN
      IF a.t = "d" THEN <<a>> \o ComposeRec(Tail(opA), opB)
      ELSE LET la == IF a.t = "r" THEN a.n ELSE Len(a.s)
               k == Min(la, CompLen(b))
               restA == IF la = k THEN Tail(opA)
                        ELSE IF a.t = "r" THEN <<Ret(la - k)>> \o Tail(opA)
                        ELSE <<Ins(Drop(a.s, k))>> \o Tail(opA)
               rest == ComposeRec(restA, Advance(opB, k))
           IN IF b.t = "r" THEN
                (IF a.t = "r" THEN <<Ret(k)>> ELSE <<Ins(Take(a.s, k))>>) \o rest
              ELSE
                (IF a.t = "r" THEN <<Del(Take(b.s, k))>> ELSE <<>>) \o rest

\* compose with its operands exchanged.
ComposeSwapped(opA, opB) == ComposeRec(opB, opA)

\* compose(opA, opB): the single operation equivalent to opA then opB.
Compose(opA, opB) == ComposeRec(opA, opB)

\* -------------------------------------------------------------------------
\* Bounded input sets of the algebra specification
\* -------------------------------------------------------------------------
AlgTexts == {Take(AlgAlphabet, Min(n, Len(AlgAlphabet))) : n \in 0..MaxLen}

\* Every operation of at most k components that is defined against base.
RECURSIVE OpsOn(_, _)
OpsOn(base, k) ==
  (IF base = <<>> THEN {<<>>} ELSE {}) \cup
  (IF k = 0 THEN {}
   ELSE UNION (
     {{<<Ins(s)>> \o r : r \in OpsOn(base, k - 1)} : s \in AlgInsTexts} \cup
     {{<<Ret(n)>> \o r : r \in OpsOn(Drop(base, n), k - 1)} : n \in 1..Len(base)} \cup
     {{<<Del(Take(base, n))>> \o r : r \in OpsOn(Drop(base, n), k - 1)} : n \in 1..Len(base)}))

\* -------------------------------------------------------------------------
\* The collaboration system: sessions, files and texts
\* -------------------------------------------------------------------------
\* Sessions.  The server names a connection by a fresh uuid; the model names
\* it by its client.  Client LocalHost started the server (this.server).
\* Editors run the extension's CollaborationClient; the remaining session is
\* a bare socket that takes part in the specification of the registry.
Editors == {1, 2}
Clients == Editors \cup {3}
LocalHost == 1
NoSession == 0

Files == {"f"}
FileOrder == <<"f">>

\* The text of the shared file in every workspace before the session.
InitText == <<"a", "b", "c">>

\* Bounds of the system specifications
MaxEdits == 3
MaxLeaveEdits == 1
MaxVersion == 2

VARIABLES
  algBase, algA, algB, algRes,
  clients, documents, hostSessionId, allowExternalConnections, sconn,
  c2s, s2c, cconn,
  sessionId, shadows, revisions, pendingOps, inFlightOps, editorText,
  edits, unacked, lastEcho, handled,
  isApplyingRemoteOp, editorQueue, editorEvents

algVars == <<algBase, algA, algB, algRes>>
srvVars == <<clients, documents, hostSessionId, allowExternalConnections, sconn>>
netVars == <<c2s, s2c, cconn>>
cliVars == <<sessionId, shadows, revisions, pendingOps, inFlightOps, editorText>>
ghostVars == <<edits, unacked, lastEcho, handled>>
editorVars == <<isApplyingRemoteOp, editorQueue, editorEvents>>
vars == <<algVars, srvVars, netVars, cliVars, ghostVars, editorVars>>

\* -------------------------------------------------------------------------
\* CollaborationServer
\* -------------------------------------------------------------------------
\* A path the authority holds no DocumentState for.
NoDoc == [exists |-> FALSE, content |-> <<>>, version |-> 0, history |-> <<>>,
          seed |-> <<>>]

\* interface DocumentState; seed records the content the document started
\* from (it is not a field of the program).
NewDoc(content) == [exists |-> TRUE, content |-> content, version |-> 0,
                    history |-> <<>>, seed |-> content]

NoOut == [d \in Clients |-> <<>>]

\* The server's fields, and the messages the current handler has sent.
Srv == [clients |-> clients, documents |-> documents, host |-> hostSessionId,
        allowExternal |-> allowExternalConnections,
        sconn |-> sconn, out |-> NoOut]

\* ws.send on the server's socket of session d.
SrvSend(S, d, m) ==
  IF S.sconn[d] = "open" THEN [S EXCEPT !.out[d] = Append(@, m)] ELSE S

\* The broadcast to every open socket but the sender's, whatever the status.
broadcastToAll(S, sender, m) ==
  [S EXCEPT !.out = [d \in Clients |->
     IF d # sender /\ S.sconn[d] = "open" /\ S.clients[d] # "none"
     THEN Append(S.out[d], m) ELSE S.out[d]]]
broadcast(S, sender, m) ==
  [S EXCEPT !.out = [d \in Clients |->
     IF d # sender /\ S.sconn[d] = "open" /\ S.clients[d] = "approved"
     THEN Append(S.out[d], m) ELSE S.out[d]]]

FileInitMsg(f, doc) ==
  [type |-> "file-init", file |-> f, content |-> doc.content, version |-> doc.version]

RECURSIVE SendDocs(_, _, _)
SendDocs(S, t, files) ==
  IF files = <<>> THEN S
  ELSE LET f == Head(files)
           S1 == IF S.documents[f].exists
                 THEN SrvSend(S, t, FileInitMsg(f, S.documents[f])) ELSE S
       IN SendDocs(S1, t, Tail(files))

\* approveClient without the broadcast of user-joined.
approveClientSilently(S, t) ==
  IF S.clients[t] = "none" THEN S
  ELSE LET S1 == [S EXCEPT !.clients[t] = "approved"]
           userList == [type |-> "user-list",
                        users |-> {c \in Clients : S1.clients[c] = "approved"}]
       IN SendDocs(SrvSend(S1, t, userList), t, FileOrder)
approveClient(S, t) ==
  IF S.clients[t] = "none" THEN S
  ELSE LET S1 == [S EXCEPT !.clients[t] = "approved"]
           userList == [type |-> "user-list",
                        users |-> {c \in Clients : S1.clients[c] = "approved"}]
           S2 == SrvSend(S1, t, userList)
           S3 == broadcast(S2, t, [type |-> "user-joined", sessionId |-> t])
       IN SendDocs(S3, t, FileOrder)

\* rejectClient announcing every removal.
rejectClientAnnouncing(S, t) ==
  IF S.clients[t] = "none" THEN S
  ELSE broadcast([S EXCEPT !.sconn[t] = IF @ = "open" THEN "closing" ELSE @,
                           !.clients[t] = "none"],
                 t, [type |-> "user-left", sessionId |-> t])
rejectClient(S, t) ==
  IF S.clients[t] = "none" THEN S
  ELSE LET S1 == [S EXCEPT !.sconn[t] = IF @ = "open" THEN "closing" ELSE @,
                           !.clients[t] = "none"]
       IN IF S.clients[t] = "approved"
          THEN broadcast(S1, t, [type |-> "user-left", sessionId |-> t])
          ELSE S1

\* The loop of handleTextOperation: op against the concurrent operations
\* past, in their order, op being left.
RECURSIVE RebaseOp(_, _)
RebaseOp(op, past) ==
  IF past = <<>> THEN op
  ELSE RebaseOp(Transform(op, Head(past), "left"), Tail(past))

\* The rebase with the incoming operation as right of the history.
RECURSIVE RebaseOpRight(_, _)
RebaseOpRight(op, past) ==
  IF past = <<>> THEN op
  ELSE RebaseOpRight(Transform(op, Head(past), "right"), Tail(past))

rebaseAsRight(doc, msg) ==
  RebaseOpRight(msg.ops, SubSeq(doc.history, msg.version + 1, doc.version))

\* The rebase against the whole history, whatever the message's version.
rebaseAgainstAll(doc, msg) == RebaseOp(msg.ops, doc.history)

\* The operation to commit for a message of version msg.version: msg.ops
\* against history[msg.version .. doc.version - 1] (indices of the program).
rebaseAgainstHistory(doc, msg) ==
  RebaseOp(msg.ops, SubSeq(doc.history, msg.version + 1, doc.version))

\* The commit that does not record the operation.
commitOpUnrecorded(doc, op, content) ==
  [doc EXCEPT !.content = content, !.version = @ + 1]

\* The commit without the version's increment.
commitOpKeepingVersion(doc, op, content) ==
  [doc EXCEPT !.content = content, !.history = Append(@, op)]

\* doc.content, doc.history and doc.version after op is applied.
commitOp(doc, op, content) ==
  [doc EXCEPT !.content = content, !.history = Append(@, op), !.version = @ + 1]

\* handleTextOperation without the try/catch of ws.on('message'): the
\* failing apply ends the sender's session.
handleTextOperationUncaught(S, c, msg) ==
  LET f == msg.file
      doc0 == IF S.documents[f].exists THEN S.documents[f] ELSE NewDoc(<<>>)
      S0 == [S EXCEPT !.documents[f] = doc0]
  IN IF msg.version < 0 \/ msg.version > doc0.version THEN S0
     ELSE LET op == rebaseAgainstHistory(doc0, msg)
              content == Apply(doc0.content, op)
          IN IF content = Fail
             THEN [S0 EXCEPT !.clients[c] = "none", !.sconn[c] = "closed"]
             ELSE LET doc1 == commitOp(doc0, op, content)
                      bm == [type |-> "text-operation", file |-> f,
                             version |-> doc1.version, ops |-> op, sessionId |-> c]
                      S1 == broadcast([S0 EXCEPT !.documents[f] = doc1], c, bm)
                  IN SrvSend(S1, c, bm)

\* handleTextOperation; an apply that throws is caught by ws.on('message').
handleTextOperation(S, c, msg) ==
  LET f == msg.file
      doc0 == IF S.documents[f].exists THEN S.documents[f] ELSE NewDoc(<<>>)
      S0 == [S EXCEPT !.documents[f] = doc0]
  IN IF msg.version < 0 \/ msg.version > doc0.version THEN S0
     ELSE LET op == rebaseAgainstHistory(doc0, msg)
              content == Apply(doc0.content, op)
          IN IF content = Fail THEN S0  \* apply throws; ws.on('message') catches
             ELSE LET doc1 == commitOp(doc0, op, content)
                      bm == [type |-> "text-operation", file |-> f,
                             version |-> doc1.version, ops |-> op, sessionId |-> msg.sessionId]
                      S1 == broadcast([S0 EXCEPT !.documents[f] = doc1], c, bm)
                  IN SrvSend(S1, c, bm)

\* handleFileInit taking every pushed content as the seed.
SrvHandleFileInitAlways(S, c, msg) ==
  [S EXCEPT !.documents[msg.file] = NewDoc(msg.content)]
SrvHandleFileInit(S, c, msg) ==
  IF ~S.documents[msg.file].exists
  THEN [S EXCEPT !.documents[msg.file] = NewDoc(msg.content)]
  ELSE SrvSend(S, c, FileInitMsg(msg.file, S.documents[msg.file]))

\* The gate that drops the text-operations of a pending client only.
ignoresPendingOperations(S, c, m) ==
  S.clients[c] = "pending" /\ m.type = "text-operation"

\* handleMessage without its gate.
hearsPending(S, c, m) == FALSE

\* The gate of handleMessage: a pending client is heard for join only.
ignoresPending(S, c, m) == S.clients[c] = "pending" /\ m.type # "join"

UserRequestMsg(c, m) ==
  [type |-> "user-request", username |-> m.username, sessionId |-> c]

\* The join request told to every approved participant.
notifyApproved(S, c, m) == broadcast(S, c, UserRequestMsg(c, m))

\* case 'join' of handleMessage, status pending: the host, if one is
\* designated and registered, is sent the request.
notifyHost(S, c, m) ==
  IF S.host # NoSession /\ S.clients[S.host] # "none"
  THEN SrvSend(S, S.host, UserRequestMsg(c, m))
  ELSE S

\* The check of handleMessage with every session taken for the host.
isAnyone(S, c) == TRUE

\* const isHost of handleMessage.
isHost(S, c) == S.host = c

handleMessage(S, c, m) ==
  IF ignoresPending(S, c, m) THEN S
  ELSE IF m.type = "join" THEN
    LET status == IF c = S.host THEN "approved" ELSE "pending"
        S1 == [S EXCEPT !.clients[c] = status]
    IN IF status = "approved" THEN approveClient(S1, c) ELSE notifyHost(S1, c, m)
  ELSE IF m.type = "approve-request" THEN
    (IF isHost(S, c) THEN approveClient(S, m.targetSessionId) ELSE S)
  ELSE IF m.type \in {"reject-request", "kick-user"} THEN
    (IF isHost(S, c) THEN rejectClient(S, m.targetSessionId) ELSE S)
  ELSE IF m.type = "text-operation" THEN handleTextOperation(S, c, m)
  ELSE IF m.type \in {"file-create", "file-delete"} THEN
    broadcast(S, c, [m EXCEPT !.sessionId = c])
  ELSE IF m.type = "file-init" THEN SrvHandleFileInit(S, c, m)
  ELSE S

\* handleConnection accepting every address.
handleConnectionUngated(S, c, isLocal) ==
  SrvSend([S EXCEPT !.sconn[c] = "open"], c, [type |-> "welcome", sessionId |-> c])

\* handleConnection: a connection that is neither local nor allowed is closed
\* before it gets a session id and handlers; the others get the session id,
\* the welcome message and the handlers of 'message' and 'close'.
handleConnection(S, c, isLocal) ==
  IF ~isLocal /\ ~S.allowExternal
  THEN [S EXCEPT !.sconn[c] = "refused"]
  ELSE SrvSend([S EXCEPT !.sconn[c] = "open"], c,
               [type |-> "welcome", sessionId |-> c])

enableExternalConnections(S) == [S EXCEPT !.allowExternal = TRUE]

\* ws.on('close') announcing every close, whatever the registry holds.
onCloseAnnouncing(S, c) ==
  LET S1 == [S EXCEPT !.clients[c] = "none", !.sconn[c] = "closed"]
      S2 == broadcast(S1, c, [type |-> "user-left", sessionId |-> c])
  IN IF c = S.host THEN [S2 EXCEPT !.host = NoSession] ELSE S2

\* ws.on('close') that leaves the host designation as it is.
onCloseKeepingHost(S, c) ==
  LET S1 == [S EXCEPT !.clients[c] = "none", !.sconn[c] = "closed"]
  IN IF S.clients[c] = "approved"
     THEN broadcast(S1, c, [type |-> "user-left", sessionId |-> c])
     ELSE S1

\* ws.on('close') of handleConnection.
onClose(S, c) ==
  LET S1 == [S EXCEPT !.clients[c] = "none", !.sconn[c] = "closed"]
      S2 == IF S.clients[c] = "approved"
            THEN broadcast(S1, c, [type |-> "user-left", sessionId |-> c])
            ELSE S1
  IN IF c = S.host THEN [S2 EXCEPT !.host = NoSession] ELSE S2

setHost(S, c) ==
  [S EXCEPT !.host = c, !.clients[c] = IF @ # "none" THEN "approved" ELSE @]

\* The server's fields after a handler, and its messages put on the wire; a
\* message to a client that closed its socket is lost.
SrvBecomes(S) ==
  /\ clients' = S.clients
  /\ documents' = S.documents
  /\ hostSessionId' = S.host
  /\ allowExternalConnections' = S.allowExternal
  /\ sconn' = S.sconn

Deliver(queues, out) ==
  [d \in Clients |-> IF cconn[d] = "open" THEN queues[d] \o out[d] ELSE <<>>]

\* The messages CollaborationClient.handleMessage acts on; it hands the others
\* to the webview or ignores them.
CoreTypes == {"welcome", "text-operation", "file-init"}

RECURSIVE CoreOnly(_)
CoreOnly(q) ==
  IF q = <<>> THEN <<>>
  ELSE (IF Head(q).type \in CoreTypes THEN <<Head(q)>> ELSE <<>>) \o CoreOnly(Tail(q))

\* What of the sent messages q the peers' queues hold: all of them, or those
\* CollaborationClient.handleMessage acts on.
Kept(core, q) == IF core THEN CoreOnly(q) ELSE q

\* The message with the session id of the socket it arrived on.
Stamped(c, data) ==
  [k \in DOMAIN data \cup {"sessionId"} |->
     IF k = "sessionId" THEN c ELSE data[k]]

\* ws.on('message') stamping only a message that carries no session id.
onMessageStampingIfAbsent(S, c, data) ==
  handleMessage(S, c, IF "sessionId" \in DOMAIN data THEN data
                      ELSE Stamped(c, data))

\* The callback of ws.on('message'): the parsed message is stamped with the
\* connection's session id and handed to handleMessage.
onMessage(S, c, data) == handleMessage(S, c, Stamped(c, data))

\* The server handles the next message of session c.
ServerHandles(c, core) ==
  /\ sconn[c] \in {"open", "closing"}
  /\ c2s[c] # <<>>
  /\ LET S == onMessage(Srv, c, Head(c2s[c])) IN
       /\ SrvBecomes(S)
       /\ s2c' = Deliver(s2c, [d \in Clients |-> Kept(core, S.out[d])])
  /\ c2s' = [c2s EXCEPT ![c] = Tail(@)]
  /\ UNCHANGED <<cconn, cliVars, edits, unacked, lastEcho, algVars, editorVars>>

\* The close event of session c's socket, after its last message.
ServerCloses(c, core) ==
  /\ sconn[c] \in {"open", "closing"}
  /\ cconn[c] = "closed"
  /\ c2s[c] = <<>>
  /\ LET S == onClose(Srv, c) IN
       /\ SrvBecomes(S)
       /\ s2c' = Deliver(s2c, [d \in Clients |-> Kept(core, S.out[d])])
  /\ UNCHANGED <<c2s, cconn, cliVars, edits, unacked, lastEcho, algVars, editorVars>>

\* The server's two events when its peers are arbitrary: every message it
\* sends is kept for inspection, and so is the type of the message it
\* handled, from whom and in which status.
PeerHandled(c) ==
  /\ ServerHandles(c, FALSE)
  /\ handled' = [type |-> Head(c2s[c]).type, from |-> c, status |-> clients[c]]

PeerClosed(c) == ServerCloses(c, FALSE) /\ UNCHANGED handled

\* -------------------------------------------------------------------------
\* The server under arbitrary peers (SrvSpec)
\* -------------------------------------------------------------------------
SrvTexts == {<<>>, InitText}

SrvOps == {
  <<Ins(<<"a", "b">>)>>,
  <<Ret(3), Ins(<<"X">>)>>,
  <<Ins(<<"Y">>), Ret(3)>>,
  <<Ret(2), Ins(<<"X">>)>>,
  <<Ret(1)>> }

SrvMsgs ==
  {[type |-> "join", username |-> "Anonymous"]} \cup
  {[type |-> k, targetSessionId |-> t] :
     k \in {"approve-request", "reject-request", "kick-user"}, t \in Editors} \cup
  {[type |-> "text-operation", file |-> f, version |-> v, ops |-> o] :
     f \in Files, v \in 0..MaxVersion, o \in SrvOps} \cup
  {[type |-> "text-operation", file |-> f, version |-> v, ops |-> <<Ret(1)>>] :
     f \in Files, v \in {-1, MaxVersion + 1}} \cup
  {[type |-> "file-init", file |-> f, content |-> t, version |-> 0] :
     f \in Files, t \in SrvTexts} \cup
  {[type |-> "file-create", file |-> f, content |-> InitText, sessionId |-> NoSession] :
     f \in Files}

\* No message.
NoMsg == [type |-> "none"]

CliInit ==
  /\ sessionId = [c \in Clients |-> NoSession]
  /\ shadows = [c \in Clients |-> [f \in Files |-> InitText]]
  /\ revisions = [c \in Clients |-> [f \in Files |-> 0]]
  /\ pendingOps = [c \in Clients |-> [f \in Files |-> <<>>]]
  /\ inFlightOps = [c \in Clients |-> [f \in Files |-> <<>>]]
  /\ editorText = [c \in Clients |-> [f \in Files |-> InitText]]

\* No remote mutation of an editor is under way.
EditorIdle ==
  /\ isApplyingRemoteOp = FALSE
  /\ editorQueue = <<>>
  /\ editorEvents = <<>>

SysInit ==
  /\ EditorIdle
  /\ clients = [c \in Clients |-> "none"]
  /\ documents = [f \in Files |-> NoDoc]
  /\ hostSessionId = NoSession
  /\ allowExternalConnections = FALSE
  /\ sconn = [c \in Clients |-> "idle"]
  /\ c2s = [c \in Clients |-> <<>>]
  /\ s2c = [c \in Clients |-> <<>>]
  /\ cconn = [c \in Clients |-> "idle"]
  /\ CliInit
  /\ edits = 0
  /\ unacked = [c \in Clients |-> [f \in Files |-> 0]]
  /\ lastEcho = [c \in Clients |-> [f \in Files |-> NoMsg]]
  /\ handled = NoMsg

NoRes == [kind |-> "none", l |-> <<>>, r |-> <<>>]

AlgIdle ==
  /\ algBase = <<>>
  /\ algA = <<>>
  /\ algB = <<>>
  /\ algRes = NoRes

SrvInit == SysInit /\ AlgIdle

\* A peer opens a connection from the local address: handleConnection.
PeerConnect(c) ==
  /\ cconn[c] = "idle"
  /\ cconn' = [cconn EXCEPT ![c] = "open"]
  /\ SrvBecomes(handleConnection(Srv, c, TRUE))
  /\ s2c' = [d \in Clients |-> <<>>]
  /\ UNCHANGED <<c2s, cliVars, ghostVars, algVars, editorVars>>

\* A connected peer sends any message, once the previous one is handled and
\* the server's answers to it are read; text-operations are sent while the
\* document is below version MaxVersion.
PeerSend(c, m) ==
  /\ cconn[c] = "open"
  /\ \A d \in Clients : c2s[d] = <<>>
  /\ m.type = "text-operation" => documents[m.file].version < MaxVersion
  /\ c2s' = [c2s EXCEPT ![c] = <<m>>]
  /\ s2c' = [d \in Clients |-> <<>>]
  /\ handled' = NoMsg
  /\ UNCHANGED <<cconn, srvVars, cliVars, edits, unacked, lastEcho, algVars, editorVars>>

\* The extension designates the local session as host (setHost).
PeerSetHost ==
  /\ cconn[LocalHost] = "open"
  /\ hostSessionId # LocalHost
  /\ \A d \in Clients : c2s[d] = <<>>
  /\ SrvBecomes(setHost(Srv, LocalHost))
  /\ s2c' = [d \in Clients |-> <<>>]
  /\ UNCHANGED <<c2s, cconn, cliVars, ghostVars, algVars, editorVars>>

\* A peer's socket closes (closed by the peer, or after the server's close).
PeerClose(c) ==
  /\ cconn[c] = "open"
  /\ cconn' = [cconn EXCEPT ![c] = "closed"]
  /\ s2c' = [d \in Clients |-> <<>>]
  /\ UNCHANGED <<c2s, srvVars, cliVars, ghostVars, algVars, editorVars>>

SrvNext ==
  \/ \E c \in Editors : PeerConnect(c)
  \/ \E c \in Editors, m \in SrvMsgs : PeerSend(c, m)
  \/ PeerSetHost
  \/ \E c \in Editors : PeerClose(c)
  \/ \E c \in Editors : PeerHandled(c)
  \/ \E c \in Editors : PeerClosed(c)

SrvSpec == SrvInit /\ [][SrvNext]_vars

\* -------------------------------------------------------------------------
\* The registry under three arbitrary peers (AdmissionSpec)
\* -------------------------------------------------------------------------
Usernames == {"ann", "bob"}

AdmissionOps == {<<Ins(<<"a">>)>>}

\* The messages of the three peers; a text-operation of version MaxVersion is
\* ahead of every document it is sent for.
AdmissionMsgs ==
  {[type |-> "join", username |-> u] : u \in Usernames} \cup
  {[type |-> k, targetSessionId |-> t] :
     k \in {"approve-request", "reject-request", "kick-user"}, t \in Clients} \cup
  {[type |-> "text-operation", file |-> f, version |-> v, ops |-> o] :
     f \in Files, v \in 0..MaxVersion, o \in AdmissionOps} \cup
  {[type |-> "file-init", file |-> f, content |-> InitText, version |-> 0] :
     f \in Files} \cup
  {[type |-> k, file |-> f, content |-> InitText, sessionId |-> NoSession] :
     k \in {"file-create", "file-delete"}, f \in Files}

\* The session a message names as its target, if it names one.
TargetOf(m) ==
  IF "targetSessionId" \in DOMAIN m THEN m.targetSessionId ELSE NoSession

\* The server handles the next message of session c; kept for inspection are
\* the message's type and target, its sender, and the sender's status, the
\* target's status and the host before it was handled.
AdmissionHandled(c) ==
  /\ ServerHandles(c, FALSE)
  /\ LET t == TargetOf(Head(c2s[c])) IN
       handled' = [type |-> Head(c2s[c]).type, from |-> c, status |-> clients[c],
                   target |-> t, host |-> hostSessionId,
                   was |-> IF t = NoSession THEN "none" ELSE clients[t]]

\* The socket of session c closes once its messages are handled: the peer
\* closes it, or follows the server's close; ws.on('close') runs.
PeerLeaves(c) ==
  /\ cconn[c] = "open"
  /\ sconn[c] \in {"open", "closing"}
  /\ c2s[c] = <<>>
  /\ cconn' = [cconn EXCEPT ![c] = "closed"]
  /\ LET S == onClose(Srv, c) IN
       /\ SrvBecomes(S)
       /\ s2c' = [d \in Clients |-> IF cconn'[d] = "open" THEN S.out[d] ELSE <<>>]
  /\ UNCHANGED <<c2s, cliVars, ghostVars, algVars, editorVars>>

AdmissionNext ==
  \/ \E c \in Clients : PeerConnect(c)
  \/ \E c \in Clients, m \in AdmissionMsgs : PeerSend(c, m)
  \/ PeerSetHost
  \/ \E c \in Clients : AdmissionHandled(c)
  \/ \E c \in Clients : PeerLeaves(c)

AdmissionSpec == SrvInit /\ [][AdmissionNext]_vars

\* -------------------------------------------------------------------------
\* The admission gate of connections (GateSpec)
\* -------------------------------------------------------------------------
GateMsgs ==
  {[type |-> "join", username |-> "Anonymous"]} \cup
  {[type |-> "text-operation", file |-> f, version |-> 0, ops |-> o] :
     f \in Files, o \in AdmissionOps} \cup
  {[type |-> "file-init", file |-> f, content |-> InitText, version |-> 0] :
     f \in Files}

\* A peer opens a connection from a local or another address; kept for
\* inspection are the address's kind and whether external connections were
\* allowed.
GateConnect(c, isLocal) ==
  /\ cconn[c] = "idle"
  /\ cconn' = [cconn EXCEPT ![c] = "open"]
  /\ LET S == handleConnection(Srv, c, isLocal) IN
       /\ SrvBecomes(S)
       /\ s2c' = [d \in Clients |-> IF cconn'[d] = "open" THEN S.out[d] ELSE <<>>]
  /\ handled' = [type |-> "connection", from |-> c, local |-> isLocal,
                 allowed |-> allowExternalConnections]
  /\ UNCHANGED <<c2s, cliVars, edits, unacked, lastEcho, algVars, editorVars>>

\* POST /start on the current port, or the host's command, allows external
\* connections.
GateEnable ==
  /\ ~allowExternalConnections
  /\ SrvBecomes(enableExternalConnections(Srv))
  /\ s2c' = [d \in Clients |-> <<>>]
  /\ UNCHANGED <<c2s, cconn, cliVars, ghostVars, algVars, editorVars>>

\* What a peer writes on a socket the server closed without handlers reaches
\* no handler.
GateDiscard(c) ==
  /\ sconn[c] = "refused"
  /\ c2s[c] # <<>>
  /\ c2s' = [c2s EXCEPT ![c] = Tail(@)]
  /\ s2c' = [d \in Clients |-> <<>>]
  /\ handled' = [type |-> "discarded", from |-> c, what |-> Head(c2s[c]).type]
  /\ UNCHANGED <<cconn, srvVars, cliVars, edits, unacked, lastEcho, algVars, editorVars>>

GateNext ==
  \/ \E c \in Clients, isLocal \in BOOLEAN : GateConnect(c, isLocal)
  \/ GateEnable
  \/ \E c \in Clients, m \in GateMsgs : PeerSend(c, m)
  \/ \E c \in Clients : AdmissionHandled(c)
  \/ \E c \in Clients : GateDiscard(c)
  \/ \E c \in Clients : PeerLeaves(c)

GateSpec == SrvInit /\ [][GateNext]_vars

\* -------------------------------------------------------------------------
\* CollaborationClient
\* -------------------------------------------------------------------------
\* The character client c types.
Marks == <<"X", "Y", "Z">>
Mark(c) == Marks[c]

\* The fields of client c, the text of its editor's documents, the messages
\* the current handler has sent, and whether its socket is open (send() drops
\* the message otherwise).
Cl(c) == [sessionId |-> sessionId[c], shadows |-> shadows[c],
          revisions |-> revisions[c], pendingOps |-> pendingOps[c],
          inFlightOps |-> inFlightOps[c], editor |-> editorText[c],
          sent |-> <<>>, open |-> (cconn[c] = "open")]

send(cl, m) == IF cl.open THEN [cl EXCEPT !.sent = Append(@, m)] ELSE cl

\* generateOp without its last step, the retain of the remainder.
generateOpToEdit(shadow, change) ==
  (IF change.rangeOffset > 0 THEN <<Ret(change.rangeOffset)>> ELSE <<>>) \o
  (IF change.rangeLength > 0
   THEN <<Del(SubSeq(shadow, change.rangeOffset + 1,
                     change.rangeOffset + change.rangeLength))>> ELSE <<>>) \o
  (IF Len(change.text) > 0 THEN <<Ins(change.text)>> ELSE <<>>)

\* generateOp: retain up to the offset, delete, insert, retain the remainder.
generateOp(shadow, change) ==
  LET endOffset == change.rangeOffset + change.rangeLength
      remainder == Len(shadow) - endOffset
  IN (IF change.rangeOffset > 0 THEN <<Ret(change.rangeOffset)>> ELSE <<>>) \o
     (IF change.rangeLength > 0
      THEN <<Del(SubSeq(shadow, Min(change.rangeOffset, Len(shadow)) + 1,
                        Min(endOffset, Len(shadow))))>> ELSE <<>>) \o
     (IF Len(change.text) > 0 THEN <<Ins(change.text)>> ELSE <<>>) \o
     (IF remainder > 0 THEN <<Ret(remainder)>> ELSE <<>>)

\* flushPendingOps without the check of the in-flight operation.
flushPendingOpsEager(cl, f) ==
  IF cl.pendingOps[f] = <<>> THEN cl
  ELSE LET op == Head(cl.pendingOps[f]) IN
       send([cl EXCEPT !.pendingOps[f] = Tail(@), !.inFlightOps[f] = <<op>>],
            [type |-> "text-operation", file |-> f,
             version |-> cl.revisions[f], ops |-> op])

flushPendingOps(cl, f) ==
  IF cl.pendingOps[f] = <<>> \/ cl.inFlightOps[f] # <<>> THEN cl
  ELSE LET op == Head(cl.pendingOps[f]) IN
       send([cl EXCEPT !.pendingOps[f] = Tail(@), !.inFlightOps[f] = <<op>>],
            [type |-> "text-operation", file |-> f,
             version |-> cl.revisions[f], ops |-> op])

\* The document's text after the editor has made a content change.
ApplyChange(text, change) ==
  Take(text, change.rangeOffset) \o change.text \o
  Drop(text, change.rangeOffset + change.rangeLength)

\* onDidChangeTextDocument that skips the change while an operation is in
\* flight for the file.
localEditBlocked(cl, f, change) ==
  LET op == generateOp(cl.shadows[f], change)
      shadow == Apply(cl.shadows[f], op)
      ed == [cl EXCEPT !.editor[f] = ApplyChange(@, change)]
  IN IF shadow = Fail \/ cl.inFlightOps[f] # <<>> THEN ed
     ELSE flushPendingOps([ed EXCEPT !.shadows[f] = shadow,
                                     !.pendingOps[f] = Append(@, op)], f)

\* The body of the forEach of onDidChangeTextDocument for one content change:
\* the operation is generated, the shadow updated, the operation queued and
\* the queue flushed.
changeHandled(cl, f, change) ==
  LET op == generateOp(cl.shadows[f], change)
      shadow == Apply(cl.shadows[f], op)
  IN IF shadow = Fail THEN cl
     ELSE flushPendingOps([cl EXCEPT !.shadows[f] = shadow,
                                     !.pendingOps[f] = Append(@, op)], f)

\* onDidChangeTextDocument, for one content change the editor has made; an
\* apply that throws ends the handler.
localEdit(cl, f, change) ==
  changeHandled([cl EXCEPT !.editor[f] = ApplyChange(@, change)], f, change)

\* The loop of applyRemoteOperation over the buffer: the remote op and every
\* buffered op rewritten against each other.
RECURSIVE TransformBuffer(_, _)
TransformBuffer(op, buffer) ==
  IF buffer = <<>> THEN [op |-> op, buffer |-> <<>>]
  ELSE LET pending == Head(buffer)
           newRemoteOp == Transform(op, pending, "left")
           newPendingOp == Transform(pending, op, "right")
           r == TransformBuffer(newRemoteOp, Tail(buffer))
       IN [op |-> r.op, buffer |-> <<newPendingOp>> \o r.buffer]

\* The acknowledgment that counts the revision up instead of taking the
\* echo's version.
acknowledgeByIncrement(cl, msg) ==
  flushPendingOps([cl EXCEPT !.revisions[msg.file] = @ + 1,
                             !.inFlightOps[msg.file] = <<>>], msg.file)

\* The acknowledgment that transmits the next pending operation before it
\* takes the echo's version.
acknowledgeFlushingFirst(cl, msg) ==
  [flushPendingOps([cl EXCEPT !.inFlightOps[msg.file] = <<>>], msg.file)
     EXCEPT !.revisions[msg.file] = msg.version]

\* The acknowledgment branch of applyRemoteOperation: the echo of the
\* client's own operation.
acknowledgeOp(cl, msg) ==
  flushPendingOps([cl EXCEPT !.revisions[msg.file] = msg.version,
                             !.inFlightOps[msg.file] = <<>>], msg.file)

\* The edits the callback of editor.edit makes for op, index being its
\* cursor: a retain moves it, an insert and a delete are made at it.
RECURSIVE EditsOf(_, _)
EditsOf(op, index) ==
  IF op = <<>> THEN <<>>
  ELSE LET c == Head(op) IN
    IF c.t = "r" THEN EditsOf(Tail(op), index + c.n)
    ELSE IF c.t = "i"
    THEN <<[at |-> index, len |-> 0, text |-> c.s]>> \o EditsOf(Tail(op), index)
    ELSE <<[at |-> index, len |-> Len(c.s), text |-> <<>>]>> \o
         EditsOf(Tail(op), index)

\* Two edits of one editor.edit overlap: the editor rejects them all.
Overlap(a, b) ==
  IF a.len > 0 /\ b.len > 0 THEN a.at < b.at + b.len /\ b.at < a.at + a.len
  ELSE IF a.len > 0 THEN a.at < b.at /\ b.at < a.at + a.len
  ELSE IF b.len > 0 THEN b.at < a.at /\ a.at < b.at + b.len
  ELSE FALSE

\* The texts the edits insert at offset k, in their order.
RECURSIVE InsertedAt(_, _)
InsertedAt(eds, k) ==
  IF eds = <<>> THEN <<>>
  ELSE (IF Head(eds).at = k THEN Head(eds).text ELSE <<>>) \o
       InsertedAt(Tail(eds), k)

\* text from offset k on, once the edits are made: every edit's offsets are
\* offsets of the text before the edit.
RECURSIVE EditedFrom(_, _, _)
EditedFrom(text, eds, k) ==
  IF k >= Len(text) THEN InsertedAt(eds, k)
  ELSE InsertedAt(eds, k) \o
       (IF \E i \in 1..Len(eds) : eds[i].at <= k /\ k < eds[i].at + eds[i].len
        THEN <<>> ELSE <<text[k + 1]>>) \o
       EditedFrom(text, eds, k + 1)

\* editor.edit of applyRemoteOperation: positionAt keeps offsets within the
\* text.
EditorApply(text, op) ==
  LET raw == EditsOf(op, 0)
      eds == [i \in 1..Len(raw) |->
                [at |-> Min(raw[i].at, Len(text)),
                 len |-> Min(raw[i].at + raw[i].len, Len(text))
                         - Min(raw[i].at, Len(text)),
                 text |-> raw[i].text]]
  IN IF \E i, j \in 1..Len(eds) : i < j /\ Overlap(eds[i], eds[j]) THEN text
     ELSE EditedFrom(text, eds, 0)

applyRemoteOperation(cl, msg) ==
  LET f == msg.file IN
  IF msg.sessionId = cl.sessionId THEN acknowledgeOp(cl, msg)
  ELSE
    LET inFlight == cl.inFlightOps[f]
        op1 == IF inFlight # <<>> THEN Transform(msg.ops, inFlight[1], "left")
               ELSE msg.ops
        newInFlight == IF inFlight # <<>>
                       THEN <<Transform(inFlight[1], msg.ops, "right")>> ELSE <<>>
        b == TransformBuffer(op1, cl.pendingOps[f])
        shadow == Apply(cl.shadows[f], b.op)
    IN [cl EXCEPT !.inFlightOps[f] = newInFlight,
                  !.pendingOps[f] = b.buffer,
                  !.revisions[f] = msg.version,
                  !.shadows[f] = IF shadow = Fail THEN @ ELSE shadow,
                  !.editor[f] = IF shadow = Fail THEN @ ELSE EditorApply(@, b.op)]

\* handleFileInit: the shadow and the editor's text are replaced.
CliHandleFileInit(cl, msg) ==
  [cl EXCEPT !.shadows[msg.file] = msg.content, !.editor[msg.file] = msg.content]

CliHandleMessage(cl, msg) ==
  IF msg.type = "text-operation" THEN applyRemoteOperation(cl, msg)
  ELSE IF msg.type = "file-init" THEN CliHandleFileInit(cl, msg)
  ELSE IF msg.type = "welcome" THEN [cl EXCEPT !.sessionId = msg.sessionId]
  ELSE cl

\* ws.on('open') of connect: join, then file-init for every open document.
RECURSIVE SendInits(_, _)
SendInits(cl, files) ==
  IF files = <<>> THEN cl
  ELSE SendInits(send(cl, [type |-> "file-init", file |-> Head(files),
                           content |-> cl.editor[Head(files)], version |-> 0]),
                 Tail(files))

onOpen(cl) ==
  SendInits(send(cl, [type |-> "join", username |-> "Anonymous"]), FileOrder)

CliBecomes(c, cl) ==
  /\ sessionId' = [sessionId EXCEPT ![c] = cl.sessionId]
  /\ shadows' = [shadows EXCEPT ![c] = cl.shadows]
  /\ revisions' = [revisions EXCEPT ![c] = cl.revisions]
  /\ pendingOps' = [pendingOps EXCEPT ![c] = cl.pendingOps]
  /\ inFlightOps' = [inFlightOps EXCEPT ![c] = cl.inFlightOps]
  /\ editorText' = [editorText EXCEPT ![c] = cl.editor]

\* The text-operation messages among the messages a handler sent, for file f.
SentOps(sent, f) ==
  Cardinality({i \in 1..Len(sent) :
                 sent[i].type = "text-operation" /\ sent[i].file = f})

IsEcho(c, m) == m.type = "text-operation" /\ m.sessionId = sessionId[c]

\* -------------------------------------------------------------------------
\* The whole system (Spec)
\* -------------------------------------------------------------------------
\* connect: the socket opens; the server's handleConnection and the client's
\* ws.on('open') run.
Connect(c) ==
  /\ cconn[c] = "idle"
  /\ cconn' = [cconn EXCEPT ![c] = "open"]
  /\ LET S == handleConnection(Srv, c, TRUE)
         cl == onOpen([Cl(c) EXCEPT !.open = TRUE])
     IN /\ SrvBecomes(S)
        /\ s2c' = [s2c EXCEPT ![c] = CoreOnly(S.out[c])]
        /\ c2s' = [c2s EXCEPT ![c] = cl.sent]
  /\ UNCHANGED <<cliVars, ghostVars, algVars, editorVars>>

\* ws.on('message') of the client: handleMessage; the client that started the
\* server claims host status when it is welcomed.
ClientRecv(c) ==
  /\ cconn[c] = "open"
  /\ s2c[c] # <<>>
  /\ LET m == Head(s2c[c])
         cl == CliHandleMessage(Cl(c), m)
         S == IF m.type = "welcome" /\ c = LocalHost THEN setHost(Srv, c) ELSE Srv
     IN /\ CliBecomes(c, cl)
        /\ SrvBecomes(S)
        /\ c2s' = [c2s EXCEPT ![c] = @ \o cl.sent]
        /\ unacked' = [unacked EXCEPT ![c] = [f \in Files |->
             unacked[c][f] + SentOps(cl.sent, f)
               - (IF IsEcho(c, m) /\ m.file = f THEN 1 ELSE 0)]]
        /\ lastEcho' = IF IsEcho(c, m)
                       THEN [lastEcho EXCEPT ![c][m.file] = m]
                       ELSE lastEcho
  /\ s2c' = [s2c EXCEPT ![c] = Tail(@)]
  /\ UNCHANGED <<cconn, edits, handled, algVars, editorVars>>

\* The edits a user makes: typing the client's character at the start or at
\* the end of the text, or deleting the first character.
DelLens == {0, 1}

Changes(text, c) ==
  {ch \in [rangeOffset : {0, Len(text)}, rangeLength : DelLens,
           text : {<<>>, <<Mark(c)>>}] :
     /\ ch.rangeOffset + ch.rangeLength <= Len(text)
     /\ (ch.rangeLength > 0) # (ch.text # <<>>)}

\* A local text change of file f in the editor of client c, while fewer than
\* limit changes were made.
EditWithin(limit, c, f, change) ==
  /\ cconn[c] = "open"
  /\ edits < limit
  /\ LET cl == localEdit(Cl(c), f, change) IN
       /\ CliBecomes(c, cl)
       /\ c2s' = [c2s EXCEPT ![c] = @ \o cl.sent]
       /\ unacked' = [unacked EXCEPT ![c][f] = @ + SentOps(cl.sent, f)]
  /\ edits' = edits + 1
  /\ UNCHANGED <<s2c, cconn, srvVars, lastEcho, handled, algVars, editorVars>>

LocalEdit(c, f, change) == EditWithin(MaxEdits, c, f, change)

\* The host's user answers a join request or removes a participant.
HostCommand(kind, t) ==
  /\ cconn[LocalHost] = "open"
  /\ t # LocalHost
  /\ clients[t] # "none"
  /\ kind \in {"approve-request", "reject-request"} => clients[t] = "pending"
  /\ LET m == [type |-> kind, targetSessionId |-> t] IN
       /\ \A i \in 1..Len(c2s[LocalHost]) : c2s[LocalHost][i] # m
       /\ c2s' = [c2s EXCEPT ![LocalHost] = Append(@, m)]
  /\ UNCHANGED <<s2c, cconn, srvVars, cliVars, ghostVars, algVars, editorVars>>

\* disconnect: the user of client c closes its socket.
ClientDisconnect(c) ==
  /\ cconn[c] = "open"
  /\ cconn' = [cconn EXCEPT ![c] = "closed"]
  /\ s2c' = [s2c EXCEPT ![c] = <<>>]
  /\ UNCHANGED <<c2s, srvVars, cliVars, ghostVars, algVars, editorVars>>

\* ws.on('close') of the client, after the server closed the socket.
ClientOnClose(c) ==
  /\ cconn[c] = "open"
  /\ sconn[c] = "closing"
  /\ s2c[c] = <<>>
  /\ cconn' = [cconn EXCEPT ![c] = "closed"]
  /\ UNCHANGED <<c2s, s2c, srvVars, cliVars, ghostVars, algVars, editorVars>>

\* The server's two events in the whole system: the clients' queues hold the
\* messages their handleMessage acts on.
ServerRecv(c) == ServerHandles(c, TRUE) /\ UNCHANGED handled
ServerClose(c) == ServerCloses(c, TRUE) /\ UNCHANGED handled

Init == SysInit /\ AlgIdle

HostApprove(t) == HostCommand("approve-request", t)

\* The session while nobody leaves it.
Next ==
  \/ \E c \in Editors : Connect(c)
  \/ \E c \in Editors : ClientRecv(c)
  \/ \E c \in Editors, f \in Files :
       \E change \in Changes(editorText[c][f], c) : LocalEdit(c, f, change)
  \/ \E t \in Editors : HostApprove(t)
  \/ \E c \in Editors : ServerRecv(c)

Spec == Init /\ [][Next]_vars

\* No snapshot of a file is on its way from or to client c.
Bootstrapped(c) ==
  /\ \A i \in 1..Len(c2s[c]) : c2s[c][i].type # "file-init"
  /\ \A i \in 1..Len(s2c[c]) : s2c[c][i].type # "file-init"

\* The session while nobody leaves it and the participants edit once all of
\* them are approved and hold the snapshots of their admission.
ApprovedEdit(c, f, change) ==
  /\ \A d \in Editors : clients[d] = "approved" /\ Bootstrapped(d)
  /\ LocalEdit(c, f, change)

ApprovedNext ==
  \/ \E c \in Editors : Connect(c)
  \/ \E c \in Editors : ClientRecv(c)
  \/ \E c \in Editors, f \in Files :
       \E change \in Changes(editorText[c][f], c) : ApprovedEdit(c, f, change)
  \/ \E t \in Editors : HostApprove(t)
  \/ \E c \in Editors : ServerRecv(c)

ApprovedSpec == Init /\ [][ApprovedNext]_vars

\* The session with participants leaving: rejected, kicked or disconnecting.
HostRemove(kind, t) == kind \in {"reject-request", "kick-user"} /\ HostCommand(kind, t)

LeaveEdit(c, f, change) == EditWithin(MaxLeaveEdits, c, f, change)

LeaveNext ==
  \/ \E c \in Editors : Connect(c)
  \/ \E c \in Editors : ClientRecv(c)
  \/ \E c \in Editors, f \in Files :
       \E change \in Changes(editorText[c][f], c) : LeaveEdit(c, f, change)
  \/ \E t \in Editors : HostApprove(t)
  \/ \E c \in Editors : ServerRecv(c)
  \/ \E kind \in {"reject-request", "kick-user"}, t \in Editors : HostRemove(kind, t)
  \/ \E c \in Editors : ClientDisconnect(c)
  \/ \E c \in Editors : ClientOnClose(c)
  \/ \E c \in Editors : ServerClose(c)

LeaveSpec == Init /\ [][LeaveNext]_vars

\* -------------------------------------------------------------------------
\* The algebra on bounded inputs (AlgSpec)
\* -------------------------------------------------------------------------

AlgInit ==
  /\ algBase \in AlgTexts
  /\ algA \in OpsOn(algBase, MaxComps)
  /\ algB \in OpsOn(algBase, MaxComps) \cup OpsOn(Apply(algBase, algA), MaxComps)
  /\ algRes = NoRes
  /\ SysInit

\* Both sides of the convergence square for two operations on the same base.
AlgTransform ==
  /\ algRes = NoRes
  /\ Apply(algBase, algB) # Fail
  /\ algRes' = [kind |-> "tp1",
                l |-> Apply(Apply(algBase, algA), Transform(algB, algA, "right")),
                r |-> Apply(Apply(algBase, algB), Transform(algA, algB, "left"))]
  /\ UNCHANGED <<algBase, algA, algB, srvVars, netVars, cliVars, ghostVars,
               editorVars>>

\* opA then opB, against the composed operation.
AlgCompose ==
  /\ algRes = NoRes
  /\ Apply(Apply(algBase, algA), algB) # Fail
  /\ algRes' = [kind |-> "compose",
                l |-> Apply(Apply(algBase, algA), algB),
                r |-> Apply(algBase, Compose(algA, algB))]
  /\ UNCHANGED <<algBase, algA, algB, srvVars, netVars, cliVars, ghostVars,
               editorVars>>

AlgNext == AlgTransform \/ AlgCompose

AlgSpec == AlgInit /\ [][AlgNext]_vars

\* A text and the text the replay of ops makes of it.
RECURSIVE Replay(_, _)
Replay(text, ops) ==
  IF ops = <<>> THEN text ELSE Replay(Apply(text, Head(ops)), Tail(ops))

\* The authority's content of file f at version v.
ContentAt(f, v) == Replay(documents[f].seed, SubSeq(documents[f].history, 1, v))

\* Nothing is on the wire and no client holds an operation.
Quiescent ==
  /\ \A c \in Clients : c2s[c] = <<>> /\ s2c[c] = <<>>
  /\ \A c \in Clients, f \in Files :
       inFlightOps[c][f] = <<>> /\ pendingOps[c][f] = <<>>

\* This step is the server handling the next message of session c.
Handled(c) == c2s[c] # <<>> /\ c2s'[c] = Tail(c2s[c])

\* This step is client c handling the next message of the server.
Received(c) == s2c[c] # <<>> /\ s2c'[c] = Tail(s2c[c])

\* C1: convergence at quiescence: when nothing is on the wire and no client
\* holds an in-flight or pending operation, the shadow of every approved
\* client equals the authority's content, for every file.
ConvergenceAtQuiescence ==
  Quiescent =>
    \A c \in Clients, f \in Files :
      clients[c] = "approved" /\ documents[f].exists
        => shadows[c][f] = documents[f].content

\* C2: transform convergence (TP1): applying opA then opB rewritten against
\* opA (right) gives the text of applying opB then opA rewritten against opB
\* (left), for every pair of operations defined against the same base.
TransformConvergence ==
  algRes.kind = "tp1" => algRes.l = algRes.r /\ algRes.l # Fail

\* C3: apply/compose law: opA then opB gives the text of compose(opA, opB).
ApplyComposeLaw ==
  algRes.kind = "compose" => algRes.l = algRes.r

\* Two operations that insert at the same position and delete overlapping
\* ranges were transformed against each other: the insert of opA, the left
\* one, is first on both paths.
TieTransformed ==
  /\ algRes.kind = "tp1"
  /\ algBase = <<"a", "b">>
  /\ algA = <<Ins(<<"X">>), Del(<<"a", "b">>)>>
  /\ algB = <<Ins(<<"Y">>), Del(<<"a">>), Ret(1)>>
  /\ algRes.l = <<"X", "Y">>
  /\ algRes.r = <<"X", "Y">>

\* An insert followed by a delete of part of what it inserted was composed.
Composed ==
  /\ algRes.kind = "compose"
  /\ algBase = <<"a">>
  /\ algA = <<Ins(<<"X">>), Ret(1)>>
  /\ algB = <<Del(<<"X">>), Del(<<"a">>), Ins(<<"Y">>)>>
  /\ algRes.l = <<"Y">>
  /\ algRes.r = <<"Y">>

\* C4: revision monotonicity: in every step the version of every document
\* stays or grows by exactly one; it grows exactly when the server handles a
\* text-operation for the file and commits it (the history grows by one
\* operation), and no other event changes it; version and history length
\* stay equal.
RevisionMonotonicity ==
  [][\A f \in Files :
       LET d == documents[f]
           d2 == documents'[f]
       IN /\ d2.version \in {d.version, d.version + 1}
          /\ d2.version = Len(d2.history)
          /\ d2.history # d.history =>
               /\ d2.version = d.version + 1
               /\ SubSeq(d2.history, 1, Len(d.history)) = d.history
          /\ d2.version # d.version =>
               \E c \in Clients :
                 /\ Handled(c)
                 /\ Head(c2s[c]).type = "text-operation"
                 /\ Head(c2s[c]).file = f
                 /\ d2.history # d.history]_vars

\* The server handled a seed request for a document of version 2 and the
\* version stayed.
RevisionKept ==
  /\ handled.type = "file-init"
  /\ \E f \in Files : documents[f].version = 2 /\ Len(documents[f].history) = 2

\* C5: admission ordering: when the server handles a text-operation of a
\* pending participant, no DocumentState changes (no document is created, no
\* content, version or history changes) and nothing is sent to anyone.
AdmissionOrdering ==
  [][\A c \in Clients :
       (/\ Handled(c)
        /\ Head(c2s[c]).type = "text-operation"
        /\ clients[c] = "pending")
       => /\ documents' = documents
          /\ s2c' = s2c
          /\ clients' = clients]_vars

\* The server handled a text-operation of a pending participant while an
\* approved participant was connected: no document was created.
PendingOperationHandled ==
  /\ handled.type = "text-operation"
  /\ handled.status = "pending"
  /\ \E d \in Clients : clients[d] = "approved" /\ sconn[d] = "open" /\ cconn[d] = "open"
  /\ \A f \in Files : ~documents[f].exists

\* The echo of the operation client c transmitted for file f, as a message.
EchoOf(c, f) == lastEcho[c][f]

\* C6: idempotent acknowledgment: once a client received the echo of its own
\* operation, receiving the same echo again leaves the revision of the file
\* at the echo's version, where the first receipt put it, and leaves the
\* shadow as it is.
IdempotentAck ==
  \A c \in Clients, f \in Files :
    EchoOf(c, f) # NoMsg =>
      LET again == applyRemoteOperation(Cl(c), EchoOf(c, f)) IN
        /\ again.revisions[f] = EchoOf(c, f).version
        /\ again.shadows[f] = shadows[c][f]

\* A client received the echo of its operation and has typed since: its
\* shadow holds text the echo's operation did not make.
EchoReceived ==
  \E c \in Clients, f \in Files :
    /\ EchoOf(c, f) # NoMsg
    /\ revisions[c][f] = EchoOf(c, f).version
    /\ inFlightOps[c][f] # <<>>
    /\ shadows[c][f] # ContentAt(f, EchoOf(c, f).version)

\* C7: in-flight validity: when a client whose in-flight operation was
\* rewritten against the remote operations committed before it processes the
\* operation's acknowledgment, having processed every earlier version and
\* holding no buffered operation, the in-flight operation it kept has the
\* effect of the operation the authority committed for it, and its shadow
\* after the acknowledgment is the authority's content at that version.
InFlightValidity ==
  [][\A c \in Clients :
       (/\ Received(c)
        /\ IsEcho(c, Head(s2c[c]))
        /\ inFlightOps[c][Head(s2c[c]).file] # <<>>
        /\ pendingOps[c][Head(s2c[c]).file] = <<>>
        /\ revisions[c][Head(s2c[c]).file] = Head(s2c[c]).version - 1)
       => LET f == Head(s2c[c]).file
              v == Head(s2c[c]).version
          IN /\ Apply(ContentAt(f, v - 1), inFlightOps[c][f][1]) = ContentAt(f, v)
             /\ shadows'[c][f] = ContentAt(f, v)]_vars

\* The text-operations of file f in the queue q that session c originated.
OpsOf(q, c, f) ==
  Cardinality({i \in 1..Len(q) :
                 /\ q[i].type = "text-operation"
                 /\ q[i].file = f
                 /\ ("sessionId" \in DOMAIN q[i] => q[i].sessionId = c)})

\* C8: stop-and-wait: for every client and file at most one transmitted
\* text-operation is unacknowledged; it is unacknowledged exactly while the
\* client holds an in-flight operation; and what is on the wire of the
\* client's operations and their echoes is at most that one.
StopAndWait ==
  \A c \in Clients, f \in Files :
    /\ unacked[c][f] \in {0, 1}
    /\ unacked[c][f] = 1 <=> inFlightOps[c][f] # <<>>
    /\ OpsOf(c2s[c], c, f) + OpsOf(s2c[c], sessionId[c], f) <= unacked[c][f]

\* A client holds an in-flight operation on the wire and a second operation
\* that waits in its buffer.
SecondOperationWaits ==
  \E c \in Clients, f \in Files :
    /\ unacked[c][f] = 1
    /\ OpsOf(c2s[c], c, f) = 1
    /\ inFlightOps[c][f] # <<>>
    /\ pendingOps[c][f] # <<>>

\* op against history[r], ..., history[v - 1], in this order, each time as
\* left (the indices are the program's, from 0).
RECURSIVE AgainstHistory(_, _, _, _)
AgainstHistory(op, history, r, v) ==
  IF r >= v THEN op
  ELSE AgainstHistory(Transform(op, history[r + 1], "left"), history, r + 1, v)

ScenarioA == <<Ret(3), Ins(<<"X">>)>>
ScenarioB == <<Ins(<<"Y">>), Ret(3)>>
ScenarioBRebased == <<Ins(<<"Y">>), Ret(3), Ret(1)>>
ScenarioText == <<"Y", "a", "b", "c", "X">>

\* C9: server rebase: a text-operation of a participant that is not pending,
\* submitted at a revision r below the document's version, is committed as
\* its transform, as left, against history[r], ..., history[version - 1] in
\* this order: that operation is applied to the content and appended to the
\* history (nothing is committed when it does not apply).  In Scenario 2
\* the server commits [insert Y, retain 3, retain 1] and the content becomes
\* "YabcX" at version 2; A, on the broadcast, and B, on A's operation and
\* then on its acknowledgment, come to "YabcX".
ServerRebase ==
  [][/\ \A c \in Clients :
          (/\ Handled(c)
           /\ Head(c2s[c]).type = "text-operation"
           /\ clients[c] # "pending"
           /\ Head(c2s[c]).version >= 0
           /\ Head(c2s[c]).version < documents[Head(c2s[c]).file].version)
          => LET m == Head(c2s[c])
                 d == documents[m.file]
                 d2 == documents'[m.file]
                 op == AgainstHistory(m.ops, d.history, m.version, d.version)
             IN /\ IF Apply(d.content, op) = Fail
                   THEN d2 = d
                   ELSE /\ d2.content = Apply(d.content, op)
                        /\ d2.history = Append(d.history, op)
                        /\ d2.version = d.version + 1
                /\ (/\ d.content = <<"a", "b", "c", "X">>
                    /\ d.history = <<ScenarioA>>
                    /\ m.ops = ScenarioB
                    /\ m.version = 0)
                   => /\ d2.content = ScenarioText
                      /\ d2.version = 2
                      /\ d2.history = <<ScenarioA, ScenarioBRebased>>
     /\ \A c \in Clients :
          (Received(c) /\ Head(s2c[c]).type = "text-operation") =>
            LET m == Head(s2c[c])
                f == m.file
            IN /\ (/\ ~IsEcho(c, m)
                    /\ m.ops = ScenarioBRebased
                    /\ m.version = 2
                    /\ shadows[c][f] = <<"a", "b", "c", "X">>
                    /\ inFlightOps[c][f] = <<>>
                    /\ pendingOps[c][f] = <<>>)
                   => shadows'[c][f] = ScenarioText /\ revisions'[c][f] = 2
               /\ (/\ ~IsEcho(c, m)
                    /\ m.ops = ScenarioA
                    /\ m.version = 1
                    /\ shadows[c][f] = <<"Y", "a", "b", "c">>
                    /\ inFlightOps[c][f] = <<ScenarioB>>
                    /\ pendingOps[c][f] = <<>>)
                   => /\ shadows'[c][f] = ScenarioText
                      /\ inFlightOps'[c][f] = <<ScenarioBRebased>>
               /\ (/\ IsEcho(c, m)
                    /\ m.ops = ScenarioBRebased
                    /\ m.version = 2
                    /\ shadows[c][f] = ScenarioText
                    /\ pendingOps[c][f] = <<>>)
                   => /\ shadows'[c][f] = ScenarioText
                      /\ revisions'[c][f] = 2
                      /\ inFlightOps'[c][f] = <<>>]_vars

\* Scenario 2 has run: the authority holds "YabcX" at version 2 with the
\* rebased operation in its history, and A and B hold "YabcX" at revision 2.
Scenario2Done ==
  /\ Quiescent
  /\ documents["f"].content = ScenarioText
  /\ documents["f"].version = 2
  /\ documents["f"].history = <<ScenarioA, ScenarioBRebased>>
  /\ \A c \in Editors :
       /\ clients[c] = "approved"
       /\ shadows[c]["f"] = ScenarioText
       /\ revisions[c]["f"] = 2

\* C10: direct commit: a text-operation of a participant that is not
\* pending, submitted at the document's current version, is committed as it
\* is: the content becomes apply(content, op), op itself is appended to the
\* history, the version grows by one and the origin is sent the operation
\* with the new version (nothing is committed when op does not apply).
\* Scenario 1: content "" at version 0 and [insert "ab"] give content "ab",
\* version 1 and the acknowledgment of version 1.
DirectCommit ==
  [][\A c \in Clients :
       (/\ Handled(c)
        /\ Head(c2s[c]).type = "text-operation"
        /\ clients[c] # "pending"
        /\ Head(c2s[c]).version = documents[Head(c2s[c]).file].version)
       => LET m == Head(c2s[c])
              d == documents[m.file]
              d2 == documents'[m.file]
              ack == [type |-> "text-operation", file |-> m.file,
                      version |-> d.version + 1, ops |-> m.ops, sessionId |-> c]
          IN /\ IF Apply(d.content, m.ops) = Fail
                THEN d2.content = d.content /\ d2.version = d.version
                     /\ d2.history = d.history /\ s2c'[c] = s2c[c]
                ELSE /\ d2.content = Apply(d.content, m.ops)
                     /\ d2.history = Append(d.history, m.ops)
                     /\ d2.version = d.version + 1
                     /\ (sconn[c] = "open" /\ cconn[c] = "open")
                          => s2c'[c] = Append(s2c[c], ack)
             /\ (d.content = <<>> /\ d.version = 0 /\ m.ops = <<Ins(<<"a", "b">>)>>)
                => /\ d2.content = <<"a", "b">>
                   /\ d2.version = 1
                   /\ (sconn[c] = "open" /\ cconn[c] = "open")
                        => s2c'[c][Len(s2c'[c])].version = 1]_vars

\* Scenario 1 has run, and a second operation was committed directly at
\* version 1.
Scenario1Done ==
  /\ handled.type = "text-operation"
  /\ documents["f"].seed = <<>>
  /\ documents["f"].history = <<<<Ins(<<"a", "b">>)>>, <<Ret(2), Ins(<<"X">>)>>>>
  /\ documents["f"].content = <<"a", "b", "X">>
  /\ documents["f"].version = 2
  /\ s2c[handled.from] =
       <<[type |-> "text-operation", file |-> "f", version |-> 2,
          ops |-> <<Ret(2), Ins(<<"X">>)>>, sessionId |-> handled.from]>>

\* C11: broadcast and echo: a committed text-operation of session c produces
\* one message with the rebased operation, the new version and c as session
\* id; that message is put once on the open socket of every other session
\* that is approved when the operation is committed and once on the open
\* socket of c, and no other session (pending or unregistered) is sent
\* anything.
BroadcastAndEcho ==
  [][\A c \in Clients :
       (/\ Handled(c)
        /\ Head(c2s[c]).type = "text-operation"
        /\ documents'[Head(c2s[c]).file].version
             # documents[Head(c2s[c]).file].version)
       => LET m == Head(c2s[c])
              d == documents[m.file]
              bm == [type |-> "text-operation", file |-> m.file,
                     version |-> d.version + 1,
                     ops |-> AgainstHistory(m.ops, d.history, m.version, d.version),
                     sessionId |-> c]
          IN \A p \in Clients :
               s2c'[p] = IF /\ cconn[p] = "open"
                            /\ sconn[p] = "open"
                            /\ (p = c \/ clients[p] = "approved")
                         THEN Append(s2c[p], bm)
                         ELSE s2c[p]]_vars

\* A rebased operation was committed as version 2 while another session was
\* approved and a third was pending: the approved one and the origin hold
\* the message, the pending one holds nothing.
OperationBroadcast ==
  /\ handled.type = "text-operation"
  /\ documents["f"].version = 2
  /\ documents["f"].history[2] # <<Ins(<<"a">>)>>
  /\ LET bm == [type |-> "text-operation", file |-> "f", version |-> 2,
                ops |-> documents["f"].history[2], sessionId |-> handled.from]
     IN \E p, q \in Clients \ {handled.from} :
          /\ clients[p] = "approved"
          /\ clients[q] = "pending" /\ sconn[q] = "open" /\ cconn[q] = "open"
          /\ s2c[p] = <<bm>>
          /\ s2c[q] = <<>>
          /\ s2c[handled.from] = <<bm>>

\* C12: FutureRevision drop: when the server handles a text-operation whose
\* version is greater than the document's version (0 for a path without
\* DocumentState), no DocumentState changes (a path without DocumentState
\* stays without one, so that a later file-init seeds it), nothing is sent
\* to anyone, and the registry and the sender's connection stay as they are.
FutureRevisionDrop ==
  [][\A c \in Clients :
       (/\ Handled(c)
        /\ Head(c2s[c]).type = "text-operation"
        /\ Head(c2s[c]).version > documents[Head(c2s[c]).file].version)
       => /\ documents' = documents
          /\ s2c' = s2c
          /\ clients' = clients
          /\ sconn' = sconn]_vars

\* C13: seed policy: when the server handles a file-init of a session that
\* is not pending, and holds no DocumentState for the path, the path gets
\* the message's content at version 0 with an empty history and nothing is
\* sent; when it holds one, every DocumentState stays as it is and the
\* requester is sent one file-init with the held content and version.
SeedPolicy ==
  [][\A c \in Clients :
       (/\ Handled(c)
        /\ Head(c2s[c]).type = "file-init"
        /\ clients[c] # "pending")
       => LET m == Head(c2s[c])
              d == documents[m.file]
              d2 == documents'[m.file]
              answer == [type |-> "file-init", file |-> m.file,
                         content |-> d.content, version |-> d.version]
          IN /\ \A f \in Files \ {m.file} : documents'[f] = documents[f]
             /\ IF ~d.exists
                THEN /\ d2.exists
                     /\ d2.content = m.content
                     /\ d2.version = 0
                     /\ d2.history = <<>>
                     /\ s2c' = s2c
                ELSE /\ d2 = d
                     /\ s2c' = [s2c EXCEPT ![c] =
                          IF sconn[c] = "open" /\ cconn[c] = "open"
                          THEN Append(@, answer) ELSE @]]_vars

\* A document was seeded with the workspace's text and changed by one
\* operation; a file-init with another content was then answered with the
\* held content at version 1.
SeedRefused ==
  /\ handled.type = "file-init"
  /\ documents["f"].seed = InitText
  /\ documents["f"].version = 1
  /\ documents["f"].content # InitText
  /\ s2c[handled.from] =
       <<[type |-> "file-init", file |-> "f",
          content |-> documents["f"].content, version |-> 1]>>

\* C14: host-only admission control: when the server handles an
\* approve-request, a reject-request or a kick-user of a session that is
\* not the current host, the registry, the sockets, the host and the
\* documents stay as they are and nothing is sent to anyone (no user-joined,
\* no user-left).
HostOnlyAdmission ==
  [][\A c \in Clients :
       (/\ Handled(c)
        /\ Head(c2s[c]).type \in {"approve-request", "reject-request", "kick-user"}
        /\ c # hostSessionId)
       => /\ clients' = clients
          /\ sconn' = sconn
          /\ hostSessionId' = hostSessionId
          /\ documents' = documents
          /\ s2c' = s2c]_vars

\* An approved participant that is not the host asked to kick another
\* approved participant while a host was designated: the target is still
\* approved and connected and nobody was sent anything.
IntruderIgnored ==
  /\ handled.type = "kick-user"
  /\ handled.status = "approved"
  /\ handled.host # NoSession
  /\ handled.from # handled.host
  /\ handled.target # handled.from
  /\ clients[handled.target] = "approved"
  /\ sconn[handled.target] = "open"
  /\ \A p \in Clients : s2c[p] = <<>>

HostJoin ==
  [][\A c \in Clients :
       (/\ Handled(c)
        /\ Head(c2s[c]).type = "join"
        /\ \/ c = hostSessionId
           \/ hostSessionId = NoSession /\ c = LocalHost)
       => clients'[c] = "approved"]_vars

\* The messages that carry documents.
DocumentTraffic == {"text-operation", "file-init", "file-create", "file-delete"}

RECURSIVE Snapshots(_)
Snapshots(files) ==
  IF files = <<>> THEN <<>>
  ELSE (IF documents[Head(files)].exists
        THEN <<[type |-> "file-init", file |-> Head(files),
                content |-> documents[Head(files)].content,
                version |-> documents[Head(files)].version]>>
        ELSE <<>>) \o Snapshots(Tail(files))

RejectOrKick ==
  [][\A c \in Clients :
       (/\ Handled(c)
        /\ Head(c2s[c]).type \in {"reject-request", "kick-user"}
        /\ c = hostSessionId
        /\ clients[Head(c2s[c]).targetSessionId] # "none")
       => LET t == Head(c2s[c]).targetSessionId
              left == [type |-> "user-left", sessionId |-> t]
          IN /\ clients' = [clients EXCEPT ![t] = "none"]
             /\ sconn' = [sconn EXCEPT ![t] = "closing"]
             /\ hostSessionId' = hostSessionId
             /\ documents' = documents
             /\ \A p \in Clients :
                  s2c'[p] = IF /\ clients[t] = "approved"
                               /\ p # t
                               /\ clients[p] = "approved"
                               /\ sconn[p] = "open" /\ cconn[p] = "open"
                            THEN Append(s2c[p], left)
                            ELSE s2c[p]]_vars

\* Scenario 3: the host kicked a pending participant while a third
\* participant was approved: the target is out of the registry, its socket
\* is closed by the server, and nobody was sent a user-left.
Scenario3Done ==
  /\ handled.type = "kick-user"
  /\ handled.host # NoSession
  /\ handled.from = handled.host
  /\ handled.was = "pending"
  /\ clients[handled.target] = "none"
  /\ sconn[handled.target] = "closing"
  /\ clients[handled.from] = "approved"
  /\ \E p \in Clients \ {handled.from, handled.target} :
       clients[p] = "approved" /\ sconn[p] = "open" /\ cconn[p] = "open"
  /\ \A p \in Clients : s2c[p] = <<>>

\* C20: disconnect cleanup: when the socket of session c closes, c leaves
\* the registry and no other status changes (nobody is promoted); every
\* remaining approved participant is sent one user-left with c's session id
\* if c was approved, and nobody is sent anything if it was not; if c was
\* the host no host is designated any more.  A step that designates a host
\* where none was handles no message and opens or closes no socket: it is
\* setHost.
DisconnectCleanup ==
  [][/\ \A c \in Clients :
          (sconn[c] # "closed" /\ sconn'[c] = "closed")
          => LET left == [type |-> "user-left", sessionId |-> c] IN
             /\ clients' = [clients EXCEPT ![c] = "none"]
             /\ hostSessionId' = IF c = hostSessionId THEN NoSession
                                 ELSE hostSessionId
             /\ documents' = documents
             /\ \A p \in Clients :
                  s2c'[p] = IF /\ clients[c] = "approved"
                               /\ p # c
                               /\ clients[p] = "approved"
                               /\ sconn[p] = "open" /\ cconn[p] = "open"
                            THEN <<left>>
                            ELSE <<>>
     /\ (hostSessionId = NoSession /\ hostSessionId' # NoSession)
          => c2s' = c2s /\ cconn' = cconn /\ sconn' = sconn]_vars

\* The host's socket closed while a second participant was approved and a
\* third was pending: the host is out of the registry, no host is
\* designated, nobody was promoted, the approved participant holds the
\* user-left and the pending one holds nothing.
HostLeft ==
  /\ handled.type # "none"
  /\ handled.host = LocalHost
  /\ hostSessionId = NoSession
  /\ sconn[LocalHost] = "closed"
  /\ clients[LocalHost] = "none"
  /\ \E p, q \in Clients \ {LocalHost} :
       /\ clients[p] = "approved"
       /\ s2c[p] = <<[type |-> "user-left", sessionId |-> LocalHost]>>
       /\ clients[q] = "pending" /\ sconn[q] = "open" /\ cconn[q] = "open"
       /\ s2c[q] = <<>>

\* C21: admission gate: a connection is refused exactly when it comes from
\* an address that is not local while external connections are not allowed;
\* a refused connection gets no session (no handlers) and no welcome, and an
\* accepted one gets the welcome; a refused connection is never in the
\* registry, and when it writes a message, registry, documents, host and
\* sockets stay as they are and nothing is sent to anyone.
AdmissionGate ==
  [][/\ \A c \in Clients :
          (sconn[c] = "idle" /\ sconn'[c] # "idle")
          => /\ sconn'[c] = "refused"
                  <=> (~handled'.local /\ ~allowExternalConnections)
             /\ s2c'[c] = IF sconn'[c] = "refused" THEN <<>>
                          ELSE <<[type |-> "welcome", sessionId |-> c]>>
             /\ clients' = clients
     /\ \A c \in Clients :
          sconn[c] = "refused"
          => /\ sconn'[c] = "refused"
             /\ clients'[c] = "none"
             /\ s2c'[c] = <<>>
             /\ Handled(c) =>
                  /\ clients' = clients
                  /\ documents' = documents
                  /\ hostSessionId' = hostSessionId
                  /\ sconn' = sconn
                  /\ \A p \in Clients : s2c'[p] = <<>>]_vars

\* A session that connected from another address while external
\* connections were not allowed wrote a text-operation after a local
\* session had joined: it holds no welcome, it is not in the registry and no document
\* was created.
ConnectionRefused ==
  /\ handled.type = "discarded"
  /\ handled.what = "text-operation"
  /\ sconn[handled.from] = "refused"
  /\ ~allowExternalConnections
  /\ clients[handled.from] = "none"
  /\ s2c[handled.from] = <<>>
  /\ \E d \in Clients : clients[d] = "pending" /\ sconn[d] = "open"
  /\ \A f \in Files : ~documents[f].exists

\* The operation client c applies to its shadow for the remote message msg:
\* msg.ops rewritten against the in-flight operation and the pending queue.
RemoteOpFor(c, msg) ==
  LET inFlight == inFlightOps[c][msg.file]
      op1 == IF inFlight # <<>> THEN Transform(msg.ops, inFlight[1], "left")
             ELSE msg.ops
  IN TransformBuffer(op1, pendingOps[c][msg.file]).op

\* C22: ApplyMismatch recovery: when client c handles a remote
\* text-operation whose fully transformed operation does not apply to its
\* shadow, it sends a file-init for that path, and it does not both take the
\* message's version as its revision and keep the shadow.
ApplyMismatchRecovery ==
  [][\A c \in Clients :
       (/\ Received(c)
        /\ Head(s2c[c]).type = "text-operation"
        /\ Head(s2c[c]).sessionId # sessionId[c]
        /\ Apply(shadows[c][Head(s2c[c]).file], RemoteOpFor(c, Head(s2c[c]))) = Fail)
       => LET m == Head(s2c[c]) IN
          /\ \E i \in 1..Len(c2s'[c]) :
               /\ i > Len(c2s[c])
               /\ c2s'[c][i].type = "file-init"
               /\ c2s'[c][i].file = m.file
          /\ ~(/\ revisions'[c][m.file] = m.version
               /\ shadows'[c][m.file] = shadows[c][m.file])]_vars

\* -------------------------------------------------------------------------
\* The session with a guest that connects again (ReconnectSpec)
\* -------------------------------------------------------------------------
\* connect, called again after the socket of client c was closed and the
\* server ended its session: a new socket opens, and handleConnection and
\* ws.on('open') run as at the first connection, on the maps the client
\* object kept. The session id the server draws is the index of c, which is
\* free again in the registry.
Reconnect(c) ==
  /\ c # LocalHost
  /\ cconn[c] = "closed"
  /\ sconn[c] = "closed"
  /\ cconn' = [cconn EXCEPT ![c] = "open"]
  /\ LET S == handleConnection(Srv, c, TRUE)
         cl == onOpen([Cl(c) EXCEPT !.open = TRUE])
     IN /\ SrvBecomes(S)
        /\ s2c' = [s2c EXCEPT ![c] = CoreOnly(S.out[c])]
        /\ c2s' = [c2s EXCEPT ![c] = cl.sent]
  /\ UNCHANGED <<cliVars, ghostVars, algVars, editorVars>>

ReconnectNext ==
  \/ \E c \in Editors : Connect(c)
  \/ \E c \in Editors : ClientRecv(c)
  \/ \E c \in Editors, f \in Files :
       \E change \in Changes(editorText[c][f], c) : LeaveEdit(c, f, change)
  \/ \E t \in Editors : HostApprove(t)
  \/ \E c \in Editors : ServerRecv(c)
  \/ \E c \in Editors : ClientDisconnect(c)
  \/ \E c \in Editors : ServerClose(c)
  \/ \E c \in Editors : Reconnect(c)

ReconnectSpec == Init /\ [][ReconnectNext]_vars

\* C23: when the socket of a client opens again after its connection was
\* closed, the client's revision is zero and its in-flight operation and its
\* pending queue are empty for every file (the state in which it makes the
\* first text-operation of the new connection).
ReconnectReset ==
  [][\A c \in Editors :
       (cconn[c] = "closed" /\ cconn'[c] = "open")
       => \A f \in Files : /\ revisions'[c][f] = 0
                           /\ inFlightOps'[c][f] = <<>>
                           /\ pendingOps'[c][f] = <<>>]_vars

\* -------------------------------------------------------------------------
\* The authority under operations that do not apply (OperationSpec)
\* -------------------------------------------------------------------------
\* Operations for the text "abc": a delete and an insert that apply to it, a
\* delete whose text is not at the cursor, and operations that consume fewer
\* or more characters than the text has.
OperationOps == {
  <<Del(<<"a">>), Ret(2)>>,
  <<Ret(3), Ins(<<"X">>)>>,
  <<Del(<<"b">>), Ret(2)>>,
  <<Ret(2), Ins(<<"X">>)>>,
  <<Ret(4)>> }

OperationMsgs ==
  {[type |-> "join", username |-> "Anonymous"]} \cup
  {[type |-> "approve-request", targetSessionId |-> t] : t \in Editors} \cup
  {[type |-> "text-operation", file |-> f, version |-> v, ops |-> o] :
     f \in Files, v \in 0..MaxVersion, o \in OperationOps} \cup
  {[type |-> "file-init", file |-> f, content |-> InitText, version |-> 0] :
     f \in Files}

\* The operation handleTextOperation applies for message m, and whether the
\* apply throws.
RebasedOp(m) ==
  rebaseAgainstHistory(IF documents[m.file].exists THEN documents[m.file]
                       ELSE NewDoc(<<>>), m)

Inapplicable(m) ==
  /\ m.type = "text-operation"
  /\ m.version >= 0
  /\ m.version <= documents[m.file].version
  /\ Apply(documents[m.file].content, RebasedOp(m)) = Fail

\* The server handles the next message of session c; kept for inspection are
\* the message's type, its sender and the sender's status, and whether it was
\* a text-operation whose apply threw.
OperationHandled(c) ==
  /\ ServerHandles(c, FALSE)
  /\ handled' = [type |-> Head(c2s[c]).type, from |-> c, status |-> clients[c],
                 failed |-> clients[c] = "approved" /\ Inapplicable(Head(c2s[c]))]

OperationNext ==
  \/ \E c \in Editors : PeerConnect(c)
  \/ \E c \in Editors, m \in OperationMsgs : PeerSend(c, m)
  \/ PeerSetHost
  \/ \E c \in Editors : OperationHandled(c)
  \/ \E c \in Editors : PeerLeaves(c)

OperationSpec == SrvInit /\ [][OperationNext]_vars

\* The server's fields after the step.
SrvAfter ==
  [clients |-> clients', documents |-> documents', host |-> hostSessionId',
   allowExternal |-> allowExternalConnections', sconn |-> sconn', out |-> NoOut]

\* C24: when the server handles a text-operation of an approved participant
\* whose rebased op does not apply to the document's content (length or
\* deleted text differ), the document's content, version and history stay as
\* they were, no participant is sent a text-operation (no broadcast, no
\* echo), the registry and the sockets stay as they were (the sender is still
\* approved and connected), and a text-operation of any approved participant
\* that applies to the content is committed by the server in the state the
\* failure left.
InapplicableNotFatal ==
  [][\A c \in Editors :
       (Handled(c) /\ clients[c] = "approved" /\ Inapplicable(Head(c2s[c])))
       => LET m == Head(c2s[c])
              f == m.file
          IN /\ documents'[f].content = documents[f].content
             /\ documents'[f].version = documents[f].version
             /\ documents'[f].history = documents[f].history
             /\ \A d \in Clients : \A i \in 1..Len(s2c'[d]) :
                  s2c'[d][i].type # "text-operation"
             /\ clients' = clients
             /\ sconn' = sconn
             /\ sconn'[c] = "open"
             /\ \A d \in Editors, o \in OperationOps :
                  (clients'[d] = "approved"
                   /\ Apply(documents'[f].content, o) # Fail)
                  => LET S == handleTextOperation(SrvAfter, d,
                                 [type |-> "text-operation", file |-> f,
                                  version |-> documents'[f].version, ops |-> o,
                                  sessionId |-> d])
                     IN /\ S.documents[f].version = documents[f].version + 1
                        /\ S.documents[f].content = Apply(documents[f].content, o)]_vars

\* The server has handled a text-operation of an approved participant that
\* did not apply to a document with content, and the sender is still
\* approved and connected.
InapplicableHandled ==
  /\ handled.type = "text-operation"
  /\ handled.failed
  /\ \E f \in Files : documents[f].exists /\ documents[f].content # <<>>
  /\ clients[handled.from] = "approved"
  /\ sconn[handled.from] = "open"

\* -------------------------------------------------------------------------
\* The session with edits inside the text (EditorSpec)
\* -------------------------------------------------------------------------
\* The edits a user makes here: typing the client's character at the start of
\* the text or after its first character, or deleting two characters there.
EditorChanges(text, c) ==
  {ch \in [rangeOffset : {0, 1}, rangeLength : {0, 2},
           text : {<<>>, <<Mark(c)>>}] :
     /\ ch.rangeOffset + ch.rangeLength <= Len(text)
     /\ (ch.rangeLength > 0) # (ch.text # <<>>)}

EditorNext ==
  \/ \E c \in Editors : Connect(c)
  \/ \E c \in Editors : ClientRecv(c)
  \/ \E c \in Editors, f \in Files :
       \E change \in EditorChanges(editorText[c][f], c) : ApprovedEdit(c, f, change)
  \/ \E t \in Editors : HostApprove(t)
  \/ \E c \in Editors : ServerRecv(c)

EditorSpec == Init /\ [][EditorNext]_vars

\* C25: for every client and every file, once a handler has run (a local
\* edit is handled, a remote operation's or a file-init's mutation of the
\* editor is made), the shadow is the text the editor shows.
ShadowTracksEditor ==
  \A c \in Editors : \A f \in Files : shadows[c][f] = editorText[c][f]

\* Client c transmits a text-operation for file f in the step.
Transmits(c, f) ==
  /\ Len(c2s'[c]) = Len(c2s[c]) + 1
  /\ SubSeq(c2s'[c], 1, Len(c2s[c])) = c2s[c]
  /\ c2s'[c][Len(c2s'[c])].type = "text-operation"
  /\ c2s'[c][Len(c2s'[c])].file = f

\* The user of client c changes the text of file f in the step.
Edits(c, f) == edits' = edits + 1 /\ editorText'[c][f] # editorText[c][f]

\* C26: a local edit made while an operation is in flight for the file
\* updates the shadow at once (to the text the editor shows, by the operation
\* it appends to the end of the pending queue), transmits nothing and leaves
\* the in-flight operation and the revision as they were; and whenever a
\* client transmits while operations are pending, it transmits the front of
\* the queue and the rest keeps its order.
LocalEditNotBlocked ==
  [][\A c \in Editors : \A f \in Files :
       /\ (Edits(c, f) /\ inFlightOps[c][f] # <<>>)
          => LET before == pendingOps[c][f]
                 after == pendingOps'[c][f]
             IN /\ Len(after) = Len(before) + 1
                /\ SubSeq(after, 1, Len(before)) = before
                /\ shadows'[c][f] = Apply(shadows[c][f], after[Len(after)])
                /\ shadows'[c][f] = editorText'[c][f]
                /\ shadows'[c][f] # shadows[c][f]
                /\ c2s'[c] = c2s[c]
                /\ inFlightOps'[c][f] = inFlightOps[c][f]
                /\ revisions'[c][f] = revisions[c][f]
       /\ (Transmits(c, f) /\ pendingOps[c][f] # <<>>)
          => /\ c2s'[c][Len(c2s'[c])].ops = Head(pendingOps[c][f])
             /\ pendingOps'[c][f] = Tail(pendingOps[c][f])]_vars

\* Two edits of a client wait in its pending queue behind the operation in
\* flight.
EditsQueued ==
  \E c \in Editors : \E f \in Files :
    inFlightOps[c][f] # <<>> /\ Len(pendingOps[c][f]) = 2

\* C27: when a client receives a text-operation whose sessionId is its own
\* session id, its revision becomes the message's version and its shadow and
\* its editor's text stay; with an empty pending queue the in-flight operation
\* is cleared and nothing is sent, otherwise the front of the queue becomes
\* the in-flight operation and is sent with the message's version as base.
AcknowledgmentPath ==
  [][\A c \in Editors :
       (Received(c) /\ cconn[c] = "open" /\ IsEcho(c, Head(s2c[c])))
       => LET m == Head(s2c[c])
              f == m.file
              queue == pendingOps[c][f]
          IN /\ revisions'[c][f] = m.version
             /\ shadows'[c] = shadows[c]
             /\ editorText'[c] = editorText[c]
             /\ IF queue = <<>>
                THEN /\ inFlightOps'[c][f] = <<>>
                     /\ pendingOps'[c][f] = <<>>
                     /\ c2s'[c] = c2s[c]
                ELSE /\ inFlightOps'[c][f] = <<Head(queue)>>
                     /\ pendingOps'[c][f] = Tail(queue)
                     /\ c2s'[c] = Append(c2s[c],
                          [type |-> "text-operation", file |-> f,
                           version |-> m.version, ops |-> Head(queue)])]_vars

\* A client has received the echo of its operation and has sent the next one
\* of its queue with the echo's version as base.
NextOperationSent ==
  \E c \in Editors : \E f \in Files :
    /\ EchoOf(c, f) # NoMsg
    /\ revisions[c][f] = EchoOf(c, f).version
    /\ inFlightOps[c][f] # <<>>
    /\ c2s[c] # <<>>
    /\ c2s[c][Len(c2s[c])].type = "text-operation"
    /\ c2s[c][Len(c2s[c])].version = EchoOf(c, f).version
    /\ c2s[c][Len(c2s[c])].ops = inFlightOps[c][f][1]

\* C28: in every reachable state and for every document, history holds
\* version operations, and replaying them in order on the content the
\* document started from gives its current content.
HistoryInvariant ==
  \A f \in Files :
    /\ Len(documents[f].history) = documents[f].version
    /\ ContentAt(f, documents[f].version) = documents[f].content

\* A document seeded with a text has reached version MaxVersion with another
\* content.
HistoryReplayed ==
  \E f \in Files :
    /\ documents[f].exists
    /\ documents[f].seed # <<>>
    /\ documents[f].version = MaxVersion
    /\ documents[f].content # documents[f].seed

\* C29: the DocumentState of a path changes only when the server handles a
\* text-operation for that path and commits it (one more operation in
\* history, the version one higher) or a file-init for that path and accepts
\* it as the seed of a path without DocumentState; every other step (a join,
\* an approval, a rejection, a kick, a relayed file-create or file-delete, a
\* closed connection, a dropped message) leaves it as it is, and a path that
\* has a DocumentState keeps one.
DocumentStateFrame ==
  [][\A f \in Files :
       /\ documents[f].exists => documents'[f].exists
       /\ documents'[f] # documents[f]
          => \E c \in Clients :
               /\ Handled(c)
               /\ Head(c2s[c]).type \in {"text-operation", "file-init"}
               /\ Head(c2s[c]).file = f
               /\ LET m == Head(c2s[c]) IN
                    \/ /\ m.type = "text-operation"
                       /\ documents'[f].version = documents[f].version + 1
                       /\ Len(documents'[f].history) = Len(documents[f].history) + 1
                    \/ /\ m.type = "file-init"
                       /\ ~documents[f].exists
                       /\ documents'[f] = NewDoc(m.content)]_vars

\* C30: the status of a participant never goes from approved back to
\* pending: in every step an approved participant stays approved or is
\* removed from the registry, whatever message the server handles.
LifecycleOneWay ==
  [][\A c \in Clients :
       clients[c] = "approved" => clients'[c] \in {"approved", "none"}]_vars

\* -------------------------------------------------------------------------
\* generateOp on every shadow and edit (GenerateSpec)
\* -------------------------------------------------------------------------
MaxShadow == 3

GenShadows == {Take(AlgAlphabet, n) : n \in 0..Min(MaxShadow, Len(AlgAlphabet))}

GenTexts == {<<>>, <<"X">>, <<"X", "Y">>}

\* The content changes that lie within shadow.
GenChanges(shadow) ==
  {ch \in [rangeOffset : 0..Len(shadow), rangeLength : 0..Len(shadow),
           text : GenTexts] :
     ch.rangeOffset + ch.rangeLength <= Len(shadow)}

GenInit ==
  /\ algBase \in GenShadows
  /\ algA \in GenChanges(algBase)
  /\ algB = <<>>
  /\ algRes = NoRes
  /\ SysInit

\* generateOp for the change algA of the shadow algBase, and the shadow the
\* handler then stores.
GenGenerate ==
  /\ algRes = NoRes
  /\ LET op == generateOp(algBase, algA) IN
       algRes' = [kind |-> "generate", l |-> op, r |-> Apply(algBase, op)]
  /\ UNCHANGED <<algBase, algA, algB, srvVars, netVars, cliVars, ghostVars,
               editorVars>>

GenNext == GenGenerate

GenerateSpec == GenInit /\ [][GenNext]_vars

\* The characters of the base text op consumes.
RECURSIVE Consumed(_)
Consumed(op) == IF op = <<>> THEN 0 ELSE CompLen(Head(op)) + Consumed(Tail(op))

UnregisteredIsolation ==
  [][\A c \in Clients :
       (/\ Handled(c)
        /\ sconn[c] = "open"
        /\ clients[c] = "none"
        /\ Head(c2s[c]).type \in {"text-operation", "file-init"})
       => documents' = documents]_vars

\* C33: no step sends a file-init or a text-operation (a broadcast, an echo
\* or the answer to a file-init) to a connection that is approved neither
\* before nor after the step, be it pending or without registry entry.
DisclosureToApproved ==
  [][\A p \in Clients :
       (clients[p] # "approved" /\ clients'[p] # "approved")
       => \A i \in 1..Len(s2c'[p]) :
            s2c'[p][i].type \in {"file-init", "text-operation"}
              => i <= Len(s2c[p]) /\ s2c[p][i] = s2c'[p][i]]_vars

\* -------------------------------------------------------------------------
\* The session with a participant admitted late (LateJoinSpec)
\* -------------------------------------------------------------------------
\* A participant edits once it is approved and holds the snapshots of its
\* admission, whether or not the others are admitted yet.
AdmittedEdit(c, f, change) ==
  /\ clients[c] = "approved"
  /\ Bootstrapped(c)
  /\ documents[f].exists
  /\ LocalEdit(c, f, change)

LateJoinNext ==
  \/ \E c \in Editors : Connect(c)
  \/ \E c \in Editors : ClientRecv(c)
  \/ \E c \in Editors, f \in Files :
       \E change \in Changes(editorText[c][f], c) : AdmittedEdit(c, f, change)
  \/ \E t \in Editors : HostApprove(t)
  \/ \E c \in Editors : ServerRecv(c)

LateJoinSpec == Init /\ [][LateJoinNext]_vars

\* C34: every text-operation of an approved client that reaches the
\* authority carries a revision the authority has reached, and its operation
\* is defined against the authority's content at that revision (it applies
\* to it); so the first operation of a client that got the document by a
\* file-init of version v > 0 carries v.
BaseRevisionSound ==
  [][\A c \in Editors :
       (/\ Handled(c)
        /\ Head(c2s[c]).type = "text-operation"
        /\ clients[c] = "approved")
       => LET m == Head(c2s[c]) IN
            /\ m.version <= documents[m.file].version
            /\ Apply(ContentAt(m.file, m.version), m.ops) # Fail]_vars

\* C35: progress needs the in-flight operation of an approved, connected
\* client to be accounted for: the operation is on its way to the authority
\* or its acknowledgment is on its way back. Only the acknowledgment clears
\* inFlight and only a handled operation is acknowledged, so in a state
\* where neither is on the wire inFlight stays set forever and the
\* operation is never committed, however fairly messages are delivered.
InFlightAccounted ==
  \A c \in Editors : \A f \in Files :
    (clients[c] = "approved" /\ cconn[c] = "open" /\ sconn[c] = "open"
     /\ inFlightOps[c][f] # <<>>)
    => \/ \E i \in 1..Len(c2s[c]) :
            c2s[c][i].type = "text-operation" /\ c2s[c][i].file = f
       \/ \E i \in 1..Len(s2c[c]) :
            /\ s2c[c][i].type = "text-operation"
            /\ s2c[c][i].sessionId = c
            /\ s2c[c][i].file = f

\* C36: an echo retires only the operation it acknowledges: once a client
\* received the echo of its operation, a second receipt of that echo, which
\* finds the in-flight slot empty or holding a later operation, leaves the
\* slot as it is and transmits nothing.
EchoRetiresOnlyItsOperation ==
  \A c \in Clients, f \in Files :
    EchoOf(c, f) # NoMsg =>
      LET again == applyRemoteOperation(Cl(c), EchoOf(c, f)) IN
        /\ again.inFlightOps[f] = inFlightOps[c][f]
        /\ again.sent = Cl(c).sent

\* The user-list messages among the messages q.
UserLists(q) == SelectSeq(q, LAMBDA m : m.type = "user-list")

\* C37: host designation race: whichever of the host's join and the setHost
\* call for its session is processed first, the step that makes the host
\* approved sends it one user-list.
HostDesignationRace ==
  [][(clients[LocalHost] # "approved" /\ clients'[LocalHost] = "approved")
     => Len(UserLists(s2c'[LocalHost])) = 1]_vars

\* The messages a step of the server puts on the wire to session p: a handler
\* adds them to those p has not read, a close or a connection leaves them
\* alone on it.
SentTo(p) ==
  IF \E c \in Clients : Handled(c)
  THEN SubSeq(s2c'[p], Len(s2c[p]) + 1, Len(s2c'[p]))
  ELSE s2c'[p]

\* C38: user-left once per departure: a step sends a participant a user-left
\* for session t only if t was approved before the step and leaves the
\* registry by it, and then sends it one; so the close of a socket whose
\* session was kicked, or was removed while pending, announces nothing.
UserLeftOnce ==
  [][\A t, p \in Clients :
       LET left == SelectSeq(SentTo(p), LAMBDA m : m.type = "user-left"
                                                  /\ m.sessionId = t)
       IN left # <<>> => /\ clients[t] = "approved"
                         /\ clients'[t] = "none"
                         /\ Len(left) = 1]_vars

\* The host kicked an approved participant and the participant's socket has
\* closed since, a third participant being approved and connected: the close
\* sent nobody anything.
KickedThenClosed ==
  /\ handled.type = "kick-user"
  /\ handled.from = handled.host
  /\ handled.was = "approved"
  /\ sconn[handled.target] = "closed"
  /\ clients[handled.target] = "none"
  /\ \E p \in Clients \ {handled.from, handled.target} :
       clients[p] = "approved" /\ sconn[p] = "open" /\ cconn[p] = "open"
  /\ \A p \in Clients : s2c[p] = <<>>

\* -------------------------------------------------------------------------
\* The authority under forged session ids (ForgeSpec)
\* -------------------------------------------------------------------------
\* The messages of the peers: every text-operation names a session of the
\* sender's choice as its origin.
ForgeMsgs ==
  {[type |-> "join", username |-> "Anonymous"]} \cup
  {[type |-> "approve-request", targetSessionId |-> t] : t \in Clients} \cup
  {[type |-> "text-operation", file |-> f, version |-> v, ops |-> o,
    sessionId |-> s] :
     f \in Files, v \in 0..MaxVersion, o \in AdmissionOps, s \in Clients} \cup
  {[type |-> "file-init", file |-> f, content |-> InitText, version |-> 0] :
     f \in Files}

\* The server handles the next message of session c; kept for inspection are
\* the message's type, its sender, and the session id the sender wrote in it.
ForgeHandled(c) ==
  /\ ServerHandles(c, FALSE)
  /\ LET m == Head(c2s[c]) IN
       handled' = [type |-> m.type, from |-> c,
                   claimed |-> IF "sessionId" \in DOMAIN m THEN m.sessionId
                               ELSE NoSession]

ForgeNext ==
  \/ \E c \in Clients : PeerConnect(c)
  \/ \E c \in Clients, m \in ForgeMsgs : PeerSend(c, m)
  \/ PeerSetHost
  \/ \E c \in Clients : ForgeHandled(c)

ForgeSpec == SrvInit /\ [][ForgeNext]_vars

Shown == "f"
MaxRemote == 2

\* The client is connected and welcomed; its shadow is the editor's text.
FlagInit ==
  /\ EditorIdle
  /\ AlgIdle
  /\ clients = [c \in Clients |-> IF c = LocalHost THEN "approved" ELSE "none"]
  /\ documents = [f \in Files |-> NoDoc]
  /\ hostSessionId = LocalHost
  /\ allowExternalConnections = FALSE
  /\ sconn = [c \in Clients |-> IF c = LocalHost THEN "open" ELSE "idle"]
  /\ cconn = [c \in Clients |-> IF c = LocalHost THEN "open" ELSE "idle"]
  /\ c2s = [c \in Clients |-> <<>>]
  /\ s2c = [c \in Clients |-> <<>>]
  /\ sessionId = [c \in Clients |-> IF c = LocalHost THEN c ELSE NoSession]
  /\ shadows = [c \in Clients |-> [f \in Files |-> InitText]]
  /\ revisions = [c \in Clients |-> [f \in Files |-> 0]]
  /\ pendingOps = [c \in Clients |-> [f \in Files |-> <<>>]]
  /\ inFlightOps = [c \in Clients |-> [f \in Files |-> <<>>]]
  /\ editorText = [c \in Clients |-> [f \in Files |-> InitText]]
  /\ edits = 0
  /\ unacked = [c \in Clients |-> [f \in Files |-> 0]]
  /\ lastEcho = [c \in Clients |-> [f \in Files |-> NoMsg]]
  /\ handled = NoMsg

\* The operations another participant committed: an insert at the start or
\* at the end of the authority's text, which the client's own operations
\* have not reached.
RemoteMsgs(c) ==
  LET n == Len(InitText) + revisions[c][Shown] IN
  {[type |-> "text-operation", file |-> Shown, sessionId |-> NoSession,
    version |-> revisions[c][Shown] + 1, ops |-> o] :
     o \in {<<Ins(<<"R">>), Ret(n)>>, <<Ret(n), Ins(<<"R">>)>>}}

\* applyRemoteOperation up to its await: the shadow and the queues are
\* rewritten, the flag is set and the edit is handed to the editor.
RemoteArrives(c, msg) ==
  /\ cconn[c] = "open"
  /\ revisions[c][Shown] < MaxRemote
  /\ LET cl == applyRemoteOperation(Cl(c), msg) IN
       /\ CliBecomes(c, [cl EXCEPT !.editor = editorText[c]])
       /\ isApplyingRemoteOp' = TRUE
       /\ editorQueue' = Append(editorQueue, RemoteOpFor(c, msg))
  /\ UNCHANGED <<editorEvents, srvVars, netVars, ghostVars, algVars>>

\* The content changes of the event the editor raises for the edits eds.
ChangesOf(eds) ==
  [i \in 1..Len(eds) |->
     [rangeOffset |-> eds[i].at, rangeLength |-> eds[i].len, text |-> eds[i].text]]

\* The editor makes the next edit it was handed: it raises the change event
\* and then resolves the promise of editor.edit.
EditorApplies(c) ==
  /\ editorQueue # <<>>
  /\ LET text == EditorApply(editorText[c][Shown], Head(editorQueue)) IN
       /\ editorText' = [editorText EXCEPT ![c][Shown] = text]
       /\ editorEvents' = editorEvents \o
            (IF text # editorText[c][Shown]
             THEN <<[type |-> "change", cause |-> "remote",
                     changes |-> ChangesOf(EditsOf(Head(editorQueue), 0))]>>
             ELSE <<>>) \o
            <<[type |-> "resolved"]>>
  /\ editorQueue' = Tail(editorQueue)
  /\ UNCHANGED <<isApplyingRemoteOp, sessionId, shadows, revisions, pendingOps,
                 inFlightOps, srvVars, netVars, ghostVars, algVars>>

\* The user types in the editor: the editor raises the change event.
UserTypes(c, change) ==
  /\ edits < MaxEdits
  /\ edits' = edits + 1
  /\ editorText' = [editorText EXCEPT ![c][Shown] = ApplyChange(@, change)]
  /\ editorEvents' = Append(editorEvents,
                            [type |-> "change", cause |-> "local",
                             changes |-> <<change>>])
  /\ UNCHANGED <<isApplyingRemoteOp, editorQueue, sessionId, shadows, revisions,
                 pendingOps, inFlightOps, srvVars, netVars, unacked, lastEcho,
                 handled, algVars>>

\* The forEach of onDidChangeTextDocument over event.contentChanges; an
\* apply that throws ends it.
RECURSIVE contentChangesHandled(_, _)
contentChangesHandled(cl, changes) ==
  IF changes = <<>> THEN cl
  ELSE IF Apply(cl.shadows[Shown], generateOp(cl.shadows[Shown], Head(changes))) = Fail
  THEN cl
  ELSE contentChangesHandled(changeHandled(cl, Shown, Head(changes)), Tail(changes))

\* onDidChangeTextDocument: the event is ignored while the socket is not
\* open or the flag is set.
OnDidChangeTextDocument(c) ==
  /\ editorEvents # <<>>
  /\ Head(editorEvents).type = "change"
  /\ editorEvents' = Tail(editorEvents)
  /\ IF cconn[c] # "open" \/ isApplyingRemoteOp
     THEN UNCHANGED <<cliVars, netVars>>
     ELSE LET cl == contentChangesHandled(Cl(c), Head(editorEvents).changes) IN
            /\ CliBecomes(c, cl)
            /\ c2s' = [c2s EXCEPT ![c] = @ \o cl.sent]
            /\ UNCHANGED <<s2c, cconn>>
  /\ UNCHANGED <<isApplyingRemoteOp, editorQueue, srvVars, ghostVars, algVars>>

\* The promise of editor.edit resolves: the flag is cleared.
EditResolved(c) ==
  /\ editorEvents # <<>>
  /\ Head(editorEvents).type = "resolved"
  /\ editorEvents' = Tail(editorEvents)
  /\ isApplyingRemoteOp' = FALSE
  /\ UNCHANGED <<editorQueue, cliVars, srvVars, netVars, ghostVars, algVars>>

FlagNext ==
  \/ \E msg \in RemoteMsgs(LocalHost) : RemoteArrives(LocalHost, msg)
  \/ EditorApplies(LocalHost)
  \/ \E change \in Changes(editorText[LocalHost][Shown], LocalHost) :
       UserTypes(LocalHost, change)
  \/ OnDidChangeTextDocument(LocalHost)
  \/ EditResolved(LocalHost)

FlagSpec == FlagInit /\ [][FlagNext]_vars

\* C40: when onDidChangeTextDocument handles a change event, an event the
\* editor raised for a remote mutation makes no operation (shadow, queues and
\* wire stay as they are), and an event raised for the user's typing is
\* turned into an operation that is queued or sent.
FlagSeparatesRemoteFromLocal ==
  [][(/\ editorEvents # <<>>
      /\ Head(editorEvents).type = "change"
      /\ editorEvents' = Tail(editorEvents))
     => /\ Head(editorEvents).cause = "remote"
             => /\ shadows' = shadows
                /\ pendingOps' = pendingOps
                /\ inFlightOps' = inFlightOps
                /\ c2s' = c2s
        /\ Head(editorEvents).cause = "local"
             => \/ pendingOps' # pendingOps
                \/ inFlightOps' # inFlightOps]_vars

====
